---- MODULE Spec2Model ----
(***************************************************************************)
(* Resumind (ai-resume-analyzer): the Puter store (lib/puter.ts), the      *)
(* upload/analysis pipeline (routes/upload.tsx), the readers of stored     *)
(* records (routes/home.tsx, routes/resume.tsx, components/ResumeCard.tsx) *)
(* and the bulk wipe (routes/wipe.tsx).                                    *)
(*                                                                         *)
(* An async function is modelled as one action per segment between two     *)
(* awaits.  A facade helper runs its getPuter() check when it is called    *)
(* (the end of the calling segment); the backend performs the call and     *)
(* answers when the awaiting segment resumes.                              *)
(***************************************************************************)
EXTENDS Integers, Sequences, FiniteSets, TLC

\* ---------------------------------------------------------------- bounds
MaxRuns == 2
WipeRuns == 1
MaxWipes == 1
ReaderRuns == 1
MaxAuthCalls == 2
MaxConverts == 3
MaxRedirects == 2
MaxClicks == 2
MaxStored == 2

\* ------------------------------------------------------------- JS values
Null == "null"
Undefined == [k |-> "undefined"]
Threw == [k |-> "threw"]
NullValue == [k |-> "null"]
Val(v) == [k |-> "value", v |-> v]

EmptyString == [t |-> "str", s |-> ""]

\* JSON.stringify / JSON.parse: a text is either the serialisation of a
\* value or not JSON at all; parsing the latter throws.
Stringify(v) == [json |-> TRUE, of |-> v]
NotJson == [json |-> FALSE]
ParseThrows(text) == ~text.json
Parse(text) == text.of

\* ------------------------------------------------------------- variables
VARIABLES
  puter,            \* window.puter is present
  isLoading,        \* store.isLoading
  error,            \* store.error
  puterReady,       \* store.puterReady
  user,             \* store.auth.user
  isAuthenticated,  \* store.auth.isAuthenticated
  getUser,          \* store.auth.getUser: the function stored there
  fsFiles,          \* backend file service: the paths that hold a file
  kvStore,          \* backend key-value namespace: key -> text
  cur,              \* the mounted Upload component instance (0: none yet)
  view,             \* Upload component state, per instance
  run,              \* handleAnalyze locals and position, per instance
  issued,           \* per instance: the pipeline steps issued, in order
  results,          \* per instance: how each finished step ended
  kvSets,           \* per instance: the kv.set calls made, key and value
  wipe,             \* WipeApp component state and handleDelete position
  wiped,            \* paths deleted and keys flushed by handleDelete
  route,            \* current location
  home,             \* Home component state
  detail,           \* Resume (detail) component state
  app,              \* a direct caller of the facade helpers
  boot,             \* init(): its interval, its timeout and the time passed
  tasks,            \* the running calls of the auth operations of the store
  redirects,        \* the arguments of the navigate() calls of the Auth view
  pdf,              \* pdf2img.ts module state: pdfjsLib, isLoading, loadPromise
  conv,             \* the running calls of convertPdfToImage
  accordion,        \* Accordion component: its mode, activeItems, last toggle
  uploader          \* FileUploader per Upload instance: dropzone state, reports

storeVars == <<isLoading, error, puterReady, user, isAuthenticated, getUser>>
backendVars == <<fsFiles, kvStore>>
uploadVars == <<cur, view, run, issued, results, kvSets>>
readerVars == <<home, detail>>
authVars == <<boot, tasks, redirects>>
pdfVars == <<pdf, conv>>
uiVars == <<accordion, uploader>>
vars == <<puter, storeVars, backendVars, uploadVars, wipe, wiped, route,
          readerVars, app, authVars, pdfVars, uiVars>>

Max(a, b) == IF a > b THEN a ELSE b
Runs == 1..Max(MaxRuns, Max(WipeRuns, ReaderRuns))

\* ------------------------------------------------------------ the store
getPuter == IF puter THEN "puter" ELSE Null

NotAvailableMsg == "Puter.js not available"

\* The two functions that are stored as auth.getUser: () => get().auth.user
\* of the initial state, and () => user closed over a fetched user or null.
Live == [k |-> "live"]
Closure(u) == [k |-> "closure", v |-> u]

\* Variant of setError that does not clear the user.
setError_keepUser(msg) ==
  /\ error' = msg
  /\ isLoading' = FALSE
  /\ isAuthenticated' = FALSE
  /\ UNCHANGED <<puterReady, user, getUser>>

setError(msg) ==
  /\ error' = msg
  /\ isLoading' = FALSE
  /\ user' = Null
  /\ isAuthenticated' = FALSE
  /\ UNCHANGED <<puterReady, getUser>>

\* Every fs/ai/kv helper has the same body: the getPuter() check, then the
\* call to the backend, whose promise it returns as is.  st is what the
\* caller is left awaiting: "undefined" (the helper returned at once, no
\* backend call) or "inflight" (the backend call was issued).
Helper(st) ==
  IF getPuter = Null
    THEN setError(NotAvailableMsg) /\ st = "undefined"
    ELSE UNCHANGED storeVars /\ st = "inflight"

CallStates == {"undefined", "inflight"}
NoCall == [op |-> "none", st |-> "none"]
Call(op, arg, st) == [op |-> op, arg |-> arg, st |-> st]
CallSet(key, value, st) == [op |-> "kv.set", arg |-> key, value |-> value, st |-> st]

write(path, data, st) == Helper(st)
readDir(path, st) == Helper(st)
readFile(path, st) == Helper(st)
upload(files, st) == Helper(st)
deleteFile(path, st) == Helper(st)
chat(prompt, st) == Helper(st)
feedback(path, message, st) == Helper(st)
img2txt(image, st) == Helper(st)
getKV(key, st) == Helper(st)
setKV(key, value, st) == Helper(st)
deleteKV(key, st) == Helper(st)
listKV(pattern, returnValues, st) == Helper(st)
\* Variant of flushKV without the getPuter() check.
flushKV_noGuard(st) == UNCHANGED storeVars /\ st = "inflight"
flushKV(st) == Helper(st)

\* --------------------------------------------- init and the auth operations
\* init() polls every PollInterval ms and gives up after LoadTimeout ms.
PollInterval == 100
LoadTimeout == 10000

\* init() not yet called.  clock is the time since init(), counted while the
\* timeout is pending.
TimeoutMsg == "Puter.js failed to load within 10 seconds"

\* init() not yet called.  interval and timer tell whether the interval and
\* the timeout are set; clock is the time since init(), counted while the
\* timeout is pending; timeouts counts the setError calls of the timeout and
\* gaveUp tells that the timeout found no Puter.js.
BootIdle == [called |-> FALSE, interval |-> FALSE, timer |-> FALSE, clock |-> 0,
             timeouts |-> 0, gaveUp |-> FALSE]

\* Task 0 is the checkAuthStatus() that init() starts; the others are calls
\* of the auth operations by the views.
TaskIds == 0..MaxAuthCalls
NoTask == [op |-> "none", pc |-> "idle"]
Users == {"alice"}

\* err instanceof Error ? err.message : <default>
Messages(default) == {"backend error", default}

\* set({ isLoading: true, error: null })
setLoading ==
  isLoading' = TRUE /\ error' = Null
    /\ UNCHANGED <<user, isAuthenticated, getUser>>

\* set({ auth: { user, isAuthenticated, ... }, isLoading: false })
setAuth(u, authenticated) ==
  /\ user' = u /\ isAuthenticated' = authenticated /\ isLoading' = FALSE
  /\ getUser' = Closure(u)
  /\ UNCHANGED <<error, puterReady>>

\* A running call: its operation, the await it stands at and what
\* isAuthenticated was when it was called.
Running(op, was, pc) == [op |-> op, pc |-> pc, was |-> was]
Done(task, outcome) ==
  [op |-> task.op, pc |-> "done", was |-> task.was, at |-> task.pc,
   outcome |-> outcome]

\* The common start of the four auth operations: the getPuter() check, then
\* set({ isLoading: true, error: null }) and the first backend call.
Start(t, op, was, pc) ==
  IF getPuter = Null
    THEN /\ setError(NotAvailableMsg)
         /\ tasks' = [tasks EXCEPT ![t] = Done(Running(op, was, "start"),
                                               "unavailable")]
    ELSE /\ setLoading /\ UNCHANGED puterReady
         /\ tasks' = [tasks EXCEPT ![t] = Running(op, was, pc)]

checkAuthStatus(t) == Start(t, "checkAuthStatus", isAuthenticated, "isSignedIn")
signIn(t) == Start(t, "signIn", isAuthenticated, "signIn")
signOut(t) == Start(t, "signOut", isAuthenticated, "signOut")
refreshUser(t) == Start(t, "refreshUser", isAuthenticated, "getUser")

\* A view calls one of the auth operations.
auth_call(t) ==
  /\ t \in 1..MaxAuthCalls
  /\ tasks[t].pc = "idle"
  /\ t > 1 => tasks[t - 1].pc # "idle"
  /\ checkAuthStatus(t) \/ signIn(t) \/ signOut(t) \/ refreshUser(t)
  /\ UNCHANGED <<puter, backendVars, uploadVars, wipe, wiped, route, readerVars,
                 app, boot, redirects, pdfVars, uiVars>>

Fail(t, default) ==
  \E msg \in Messages(default) :
    /\ setError(msg)
    /\ tasks' = [tasks EXCEPT ![t] = Done(tasks[t], "error")]

\* Variant of AfterSignIn whose catch does not call setError.
AfterSignIn_silent(t) ==
  /\ tasks[t].pc = "signIn"
  /\ \/ Start(t, "signIn", tasks[t].was, "isSignedIn")
     \/ /\ tasks' = [tasks EXCEPT ![t] = Done(tasks[t], "error")]
        /\ UNCHANGED storeVars
  /\ UNCHANGED <<puter, backendVars, uploadVars, wipe, wiped, route, readerVars,
                 app, boot, redirects, pdfVars, uiVars>>

\* signIn() after puter.auth.signIn(): checkAuthStatus() is called, or the
\* rejection is caught.
AfterSignIn(t) ==
  /\ tasks[t].pc = "signIn"
  /\ \/ Start(t, "signIn", tasks[t].was, "isSignedIn")
     \/ Fail(t, "Sign in failed")
  /\ UNCHANGED <<puter, backendVars, uploadVars, wipe, wiped, route, readerVars,
                 app, boot, redirects, pdfVars, uiVars>>

\* checkAuthStatus() after puter.auth.isSignedIn()
AfterIsSignedIn(t) ==
  /\ tasks[t].pc = "isSignedIn"
  /\ \/ /\ tasks' = [tasks EXCEPT ![t].pc = "getUser"]
        /\ UNCHANGED storeVars
     \/ /\ setAuth(Null, FALSE)
        /\ tasks' = [tasks EXCEPT ![t] = Done(tasks[t], "ok")]
     \/ Fail(t, "Failed to check auth status")
  /\ UNCHANGED <<puter, backendVars, uploadVars, wipe, wiped, route, readerVars,
                 app, boot, redirects, pdfVars, uiVars>>

\* Variant of AfterGetUser in which a refresh that failed leaves the auth
\* state as it is.
AfterGetUser_keep(t) ==
  /\ tasks[t].pc = "getUser"
  /\ \/ \E u \in Users :
          /\ setAuth(u, TRUE)
          /\ tasks' = [tasks EXCEPT ![t] = Done(tasks[t], "ok")]
     \/ IF tasks[t].op = "refreshUser"
          THEN /\ tasks' = [tasks EXCEPT ![t] = Done(tasks[t], "error")]
               /\ error' = "Failed to refresh user" /\ isLoading' = FALSE
               /\ UNCHANGED <<user, isAuthenticated, getUser, puterReady>>
          ELSE Fail(t, "Failed to check auth status")
  /\ UNCHANGED <<puter, backendVars, uploadVars, wipe, wiped, route, readerVars,
                 app, boot, redirects, pdfVars, uiVars>>

\* checkAuthStatus() or refreshUser() after puter.auth.getUser()
AfterGetUser(t) ==
  /\ tasks[t].pc = "getUser"
  /\ \/ \E u \in Users :
          /\ setAuth(u, TRUE)
          /\ tasks' = [tasks EXCEPT ![t] = Done(tasks[t], "ok")]
     \/ Fail(t, IF tasks[t].op = "refreshUser" THEN "Failed to refresh user"
                ELSE "Failed to check auth status")
  /\ UNCHANGED <<puter, backendVars, uploadVars, wipe, wiped, route, readerVars,
                 app, boot, redirects, pdfVars, uiVars>>

\* signOut() after puter.auth.signOut()
AfterSignOut(t) ==
  /\ tasks[t].pc = "signOut"
  /\ \/ /\ setAuth(Null, FALSE)
        /\ tasks' = [tasks EXCEPT ![t] = Done(tasks[t], "ok")]
     \/ Fail(t, "Sign out failed")
  /\ UNCHANGED <<puter, backendVars, uploadVars, wipe, wiped, route, readerVars,
                 app, boot, redirects, pdfVars, uiVars>>

\* set({ puterReady: true }); checkAuthStatus(), just after getPuter() was
\* found truthy.
Detected ==
  /\ puterReady' = TRUE
  /\ setLoading
  /\ tasks' = [tasks EXCEPT ![0] = Running("checkAuthStatus", isAuthenticated,
                                            "isSignedIn")]

init ==
  /\ ~boot.called
  /\ IF getPuter # Null
       THEN /\ Detected
            /\ boot' = [boot EXCEPT !.called = TRUE]
       ELSE /\ boot' = [boot EXCEPT !.called = TRUE, !.interval = TRUE,
                                    !.timer = TRUE]
            /\ UNCHANGED <<storeVars, tasks>>
  /\ UNCHANGED <<puter, backendVars, uploadVars, wipe, wiped, route, readerVars,
                 app, redirects, pdfVars, uiVars>>

\* Variant of Tick that sets puterReady without calling checkAuthStatus().
Tick_noCheck ==
  /\ boot.interval
  /\ boot.timer => boot.clock + PollInterval <= LoadTimeout
  /\ IF getPuter # Null
       THEN /\ puterReady' = TRUE
            /\ UNCHANGED <<isLoading, error, user, isAuthenticated, getUser,
                           tasks>>
            /\ boot' = [boot EXCEPT !.interval = FALSE,
                          !.clock = IF boot.timer THEN @ + PollInterval ELSE @]
       ELSE /\ boot' = [boot EXCEPT
                          !.clock = IF boot.timer THEN @ + PollInterval ELSE @]
            /\ UNCHANGED <<storeVars, tasks>>
  /\ UNCHANGED <<puter, backendVars, uploadVars, wipe, wiped, route, readerVars,
                 app, redirects, pdfVars, uiVars>>

\* One run of the interval callback, PollInterval after the one before.
Tick ==
  /\ boot.interval
  /\ boot.timer => boot.clock + PollInterval <= LoadTimeout
  /\ IF getPuter # Null
       THEN /\ Detected
            /\ boot' = [boot EXCEPT !.interval = FALSE,
                          !.clock = IF boot.timer THEN @ + PollInterval ELSE @]
       ELSE /\ boot' = [boot EXCEPT
                          !.clock = IF boot.timer THEN @ + PollInterval ELSE @]
            /\ UNCHANGED <<storeVars, tasks>>
  /\ UNCHANGED <<puter, backendVars, uploadVars, wipe, wiped, route, readerVars,
                 app, redirects, pdfVars, uiVars>>

\* Variant of Timeout without clearInterval.
Timeout_noClear ==
  /\ boot.timer
  /\ boot.interval => boot.clock + PollInterval >= LoadTimeout
  /\ IF getPuter = Null
       THEN /\ setError(TimeoutMsg)
            /\ boot' = [boot EXCEPT !.timer = FALSE, !.clock = LoadTimeout,
                          !.timeouts = @ + 1, !.gaveUp = TRUE]
       ELSE /\ boot' = [boot EXCEPT !.timer = FALSE, !.clock = LoadTimeout]
            /\ UNCHANGED storeVars
  /\ UNCHANGED <<puter, backendVars, uploadVars, wipe, wiped, route, readerVars,
                 app, tasks, redirects, pdfVars, uiVars>>

\* The timeout callback, LoadTimeout after init(): before or after the run
\* of the interval callback that is due at the same time.
Timeout ==
  /\ boot.timer
  /\ boot.interval => boot.clock + PollInterval >= LoadTimeout
  /\ IF getPuter = Null
       THEN /\ setError(TimeoutMsg)
            /\ boot' = [boot EXCEPT !.timer = FALSE, !.interval = FALSE,
                          !.clock = LoadTimeout, !.timeouts = @ + 1,
                          !.gaveUp = TRUE]
       ELSE /\ boot' = [boot EXCEPT !.timer = FALSE, !.interval = FALSE,
                          !.clock = LoadTimeout]
            /\ UNCHANGED storeVars
  /\ UNCHANGED <<puter, backendVars, uploadVars, wipe, wiped, route, readerVars,
                 app, tasks, redirects, pdfVars, uiVars>>

\* ---------------------------------------------------------- the backend
\* window.puter as declared in puter.ts; what it answers is the choice of
\* the environment.  A key is the pair of a prefix and an identifier.
Key(prefix, id) == [prefix |-> prefix, id |-> id]

KvPut(key, value) ==
  [k \in DOMAIN kvStore \cup {key} |-> IF k = key THEN value ELSE kvStore[k]]

\* fs.upload stores the file under a path of the backend's choosing, one
\* that no other upload is given: path is that choice.
BackendUpload(file, path, res) ==
  \/ /\ res = Val([path |-> path, name |-> file])
     /\ fsFiles' = fsFiles \cup {path}
     /\ UNCHANGED kvStore
  \/ /\ res \in {Undefined, Threw}
     /\ UNCHANGED backendVars

BackendKvSet(key, value, res) ==
  \/ /\ res = Val(TRUE)
     /\ kvStore' = KvPut(key, value)
     /\ UNCHANGED fsFiles
  \/ /\ res \in {Val(FALSE), Threw}
     /\ UNCHANGED backendVars

\* The content of an AI response is a string or a sequence of parts whose
\* first element carries the text.
StringContent(text) == [kind |-> "string", text |-> text]
ArrayContent(parts) == [kind |-> "array", parts |-> parts]
Response(content) == [message |-> [content |-> content]]

Category(score) == [score |-> score, tips |-> << >>]
FullFeedback(overall, cat) ==
  [t |-> "obj", overallScore |-> overall, ATS |-> Category(cat),
   toneAndStyle |-> Category(cat), content |-> Category(cat),
   structure |-> Category(cat), skills |-> Category(cat)]

AiValues ==
  { FullFeedback(82, 70),
    FullFeedback(150, 0 - 5),
    [t |-> "obj", overallScore |-> 60, ATS |-> Category(50),
     content |-> Category(40)],
    EmptyString }

AiTexts == {Stringify(v) : v \in AiValues} \cup {NotJson}

AiResponses ==
  {Response(StringContent(t)) : t \in AiTexts}
    \cup {Response(ArrayContent(<<[type |-> "text", text |-> t]>>)) : t \in AiTexts}
    \cup {Response(ArrayContent(<< >>))}

BackendChat(res) ==
  /\ res \in {Val(r) : r \in AiResponses} \cup {Undefined, Threw}
  /\ UNCHANGED backendVars

\* What an awaited helper call resolves to: undefined when the helper
\* returned before calling the backend, else the backend's answer.
Await(p, res, Backend) ==
  IF p.st = "undefined"
    THEN res = Undefined /\ UNCHANGED backendVars
    ELSE Backend

\* The files a user can select.
Files == {"resume.pdf"}

\* ------------------------------------------------------------ pdf2img.ts
Converts == 1..MaxConverts
PdfModule == [pdfjsLib |-> FALSE, isLoading |-> FALSE, loadPromise |-> "null",
              imports |-> 0]
ConvIdle == [pc |-> "idle"]

\* String(err) of what a stage threw
ErrTexts == {"Error: Invalid PDF structure", ""}

\* file.name.replace(/\.pdf$/i, "") + ".png"
PngName(file) == IF file = "resume.pdf" THEN "resume.png" ELSE file

\* The stages of convertPdfToImage inside its try block, in order.
Stages == << "load", "arrayBuffer", "getDocument", "getPage", "render", "toBlob" >>
StageAfter(pc) ==
  Stages[(CHOOSE k \in 1..Len(Stages) : Stages[k] = pc) + 1]

Settled(c, at, result) ==
  conv' = [conv EXCEPT ![c] = [pc |-> "done", file |-> conv[c].file,
                               found |-> conv[c].found,
                               at |-> at, result |-> result]]

\* Variant of loadPdfJs without the check of loadPromise.
loadPdfJs_noShare(c, file) ==
  IF pdf.pdfjsLib
    THEN /\ conv' = [conv EXCEPT ![c] = [pc |-> "load", file |-> file,
                                         on |-> "lib",
                                         found |-> pdf.loadPromise]]
         /\ UNCHANGED pdf
    ELSE /\ conv' = [conv EXCEPT ![c] = [pc |-> "load", file |-> file,
                                         on |-> "promise",
                                         found |-> pdf.loadPromise]]
         /\ pdf' = [pdf EXCEPT !.isLoading = TRUE, !.loadPromise = "pending",
                               !.imports = @ + 1]

\* loadPdfJs() up to its return: the cached module, the load in flight, or a
\* new import.
loadPdfJs(c, file) ==
  IF pdf.pdfjsLib
    THEN /\ conv' = [conv EXCEPT ![c] = [pc |-> "load", file |-> file,
                                         on |-> "lib",
                                         found |-> pdf.loadPromise]]
         /\ UNCHANGED pdf
    ELSE IF pdf.loadPromise # "null"
      THEN /\ conv' = [conv EXCEPT ![c] = [pc |-> "load", file |-> file,
                                           on |-> "promise",
                                         found |-> pdf.loadPromise]]
           /\ UNCHANGED pdf
      ELSE /\ conv' = [conv EXCEPT ![c] = [pc |-> "load", file |-> file,
                                           on |-> "promise",
                                         found |-> pdf.loadPromise]]
           /\ pdf' = [pdf EXCEPT !.isLoading = TRUE, !.loadPromise = "pending",
                                 !.imports = @ + 1]

NotPdf == <<puter, storeVars, backendVars, uploadVars, wipe, wiped, route,
            readerVars, app, authVars, uiVars>>

\* A call of convertPdfToImage(file), up to its first await.
convertPdfToImage(c) ==
  /\ conv[c].pc = "idle"
  /\ \A d \in Converts : d < c => conv[d].pc # "idle"
  /\ \E file \in Files : loadPdfJs(c, file)
  /\ UNCHANGED NotPdf

\* Variant of ImportSettles in which a rejected import clears loadPromise.
ImportSettles_retry ==
  /\ pdf.loadPromise = "pending"
  /\ \/ pdf' = [pdf EXCEPT !.pdfjsLib = TRUE, !.isLoading = FALSE,
                            !.loadPromise = "resolved"]
     \/ pdf' = [pdf EXCEPT !.loadPromise = "null"]
  /\ UNCHANGED <<conv, NotPdf>>

\* The dynamic import settles: its then-callback caches the module, or it
\* rejects and loadPromise stays the rejected promise.
ImportSettles ==
  /\ pdf.loadPromise = "pending"
  /\ \/ pdf' = [pdf EXCEPT !.pdfjsLib = TRUE, !.isLoading = FALSE,
                            !.loadPromise = "resolved"]
     \/ pdf' = [pdf EXCEPT !.loadPromise = "rejected"]
  /\ UNCHANGED <<conv, NotPdf>>

\* Variant of Caught that lets the exception out of convertPdfToImage.
Caught_rethrow(c, err) == Settled(c, conv[c].pc, Threw)

\* The catch block of convertPdfToImage
Caught(c, err) ==
  Settled(c, conv[c].pc,
          [imageUrl |-> "", file |-> Null,
           error |-> "Failed to convert PDF: " \o err])

\* convertPdfToImage after `await loadPdfJs()`
AfterLoad(c) ==
  /\ conv[c].pc = "load"
  /\ conv[c].on = "promise" => pdf.loadPromise \in {"resolved", "rejected"}
  /\ IF conv[c].on = "promise" /\ pdf.loadPromise = "rejected"
       THEN \E err \in ErrTexts : Caught(c, err)
       ELSE conv' = [conv EXCEPT ![c].pc = StageAfter("load")]
  /\ UNCHANGED <<pdf, NotPdf>>

\* convertPdfToImage after file.arrayBuffer(), getDocument().promise,
\* getPage(1) and the synchronous canvas set-up, or render().promise
AfterStage(c) ==
  /\ conv[c].pc \in {"arrayBuffer", "getDocument", "getPage", "render"}
  /\ \/ conv' = [conv EXCEPT ![c].pc = StageAfter(conv[c].pc)]
     \/ \E err \in ErrTexts : Caught(c, err)
  /\ UNCHANGED <<pdf, NotPdf>>

\* The callback of canvas.toBlob
AfterToBlob(c) ==
  /\ conv[c].pc = "toBlob"
  /\ \/ Settled(c, "none", [imageUrl |-> "blob:", file |-> PngName(conv[c].file)])
     \/ Settled(c, "toBlob", [imageUrl |-> "", file |-> Null,
                              error |-> "Failed to create image blob"])
  /\ UNCHANGED <<pdf, NotPdf>>

\* ------------------------------------------------------- upload.tsx

FormInputs ==
  { [companyName |-> "Acme", jobTitle |-> "Engineer",
     jobDescription |-> "Build things"],
    [companyName |-> "", jobTitle |-> "", jobDescription |-> ""] }

\* What the user typed into the form of instance i.
TypedForm(i) ==
  IF i % 2 = 1
    THEN [companyName |-> "Acme", jobTitle |-> "Engineer",
          jobDescription |-> "Build things"]
    ELSE [companyName |-> "", jobTitle |-> "", jobDescription |-> ""]

NoForm == [companyName |-> "", jobTitle |-> "", jobDescription |-> ""]

InitialView == [isProcessing |-> FALSE, statusText |-> "", file |-> Null]

\* FileUploader as mounted: useDropzone holds no accepted file and
\* onFileSelect has not been called.
DropzoneIdle == [acceptedFiles |-> << >>, reported |-> "none"]

IdleRun ==
  [pc |-> "idle", pending |-> NoCall, form |-> NoForm, file |-> Null,
   uploadedFile |-> Undefined, imageFile |-> Undefined,
   uploadedImage |-> Undefined, uuid |-> 0, data |-> Undefined,
   feedbackText |-> Undefined]

\* An Upload component instance holds state only while it is the one mounted.
Mounted(i) == cur = i /\ route.path = "/upload"

setStatusText(i, text) ==
  IF Mounted(i) THEN [view EXCEPT ![i].statusText = text] ELSE view

\* constants/index.ts
prepareInstructions(jobTitle, jobDescription) ==
  [jobTitle |-> jobTitle, jobDescription |-> jobDescription]

\* Variant of generateUUID that hands every caller the same identifier.
generateUUID_fixed(i) == 1

\* lib/utils.ts: crypto.randomUUID() never repeats; the identifier drawn by
\* instance i is named i.
generateUUID(i) == i

\* The paths the backend assigns to the two uploads of instance i.
DocPath(i) == 2 * i - 1
ImgPath(i) == 2 * i

ResumeKey(uuid) == Key("resume:", uuid)

\* lib/pdf2img.ts: what convertPdfToImage resolves to
ConvertResults(file) ==
  { [imageUrl |-> "blob:", file |-> PngName(file)],
    [imageUrl |-> "", file |-> Null, error |-> "Failed to convert PDF"] }

\* The ordered steps of handleAnalyze.
Steps ==
  << "upload document", "convert", "upload preview", "checkpoint kv.set",
     "ai.feedback", "parse", "final kv.set", "navigate" >>

\* How a step that did not reject ended: "ok", or "fail" for a falsy answer.
Outcome(res) == IF res = Val(TRUE) THEN "ok" ELSE "fail"

Log(i, steps, oks) ==
  /\ issued' = [issued EXCEPT ![i] = @ \o steps]
  /\ results' = [results EXCEPT ![i] = @ \o oks]

\* Variant of Halt that returns without setting the status text.
Halt_silent(i, pc, text) ==
  /\ run' = [run EXCEPT ![i].pc = pc, ![i].pending = NoCall]
  /\ view' = view
  /\ UNCHANGED <<storeVars, cur, route, readerVars, wipe, kvSets>>

\* return setStatusText("Error: ...") and the end of handleAnalyze
Halt(i, pc, text) ==
  /\ run' = [run EXCEPT ![i].pc = pc, ![i].pending = NoCall]
  /\ view' = IF text = Null THEN view ELSE setStatusText(i, text)
  /\ UNCHANGED <<storeVars, cur, route, readerVars, wipe, kvSets>>

handleFileSelect(i, file) ==
  /\ Mounted(i)
  /\ ~view[i].isProcessing
  /\ view[i].file # file
  /\ view' = [view EXCEPT ![i].file = file]
  /\ UNCHANGED <<puter, storeVars, backendVars, cur, run, issued, results, kvSets,
                 wipe, wiped, route, readerVars, app, authVars,
                 pdfVars, uiVars>>

\* ------------------------------------------------------- FileUploader
\* maxSize of the dropzone: 20MB.
maxFileSize == 20 * 1024 * 1024

\* What a user can drop on the uploader or pick in its dialog.
DroppedFiles ==
  { [name |-> "resume.pdf", type |-> "application/pdf", size |-> 1024],
    [name |-> "resume.pdf", type |-> "application/pdf", size |-> maxFileSize + 1],
    [name |-> "photo.png", type |-> "image/png", size |-> 1024] }

Drops ==
  {<<f>> : f \in DroppedFiles}
    \cup {<<f, f>> : f \in {d \in DroppedFiles : d.size = 1024}}

\* useDropzone({multiple: false, accept: application/pdf, maxSize}): the names
\* of the files of a drop that it accepts.
Accepted(drop) ==
  IF Len(drop) > 1
    THEN << >>
    ELSE LET ok == SelectSeq(drop, LAMBDA f : f.type = "application/pdf"
                                                /\ f.size <= maxFileSize)
         IN [n \in 1..Len(ok) |-> ok[n].name]

\* const file = acceptedFiles[0] || null: the file the uploader displays
Displayed(i) ==
  IF uploader[i].acceptedFiles = << >> THEN Null
  ELSE uploader[i].acceptedFiles[1]

\* A drop: useDropzone keeps the accepted files and calls onDrop, which
\* reports the first of them, or null, to handleFileSelect of Upload.
FileUploader_onDrop(i, drop) ==
  /\ Mounted(i)
  /\ ~view[i].isProcessing
  /\ LET acceptedFile == Accepted(drop)
         file == IF acceptedFile = << >> THEN Null ELSE acceptedFile[1]
     IN /\ uploader' = [uploader EXCEPT ![i] =
                          [acceptedFiles |-> acceptedFile, reported |-> file]]
        /\ view' = [view EXCEPT ![i].file = file]
  /\ UNCHANGED <<puter, storeVars, backendVars, cur, run, issued, results, kvSets,
                 wipe, wiped, route, readerVars, app, authVars,
                 pdfVars, accordion>>

\* A click on the remove button, which is rendered while a file is
\* displayed: onFileSelect?.(null).
FileUploader_remove(i) ==
  /\ Mounted(i)
  /\ ~view[i].isProcessing
  /\ Displayed(i) # Null
  /\ uploader' = [uploader EXCEPT ![i].reported = Null]
  /\ view' = [view EXCEPT ![i].file = Null]
  /\ UNCHANGED <<puter, storeVars, backendVars, cur, run, issued, results, kvSets,
                 wipe, wiped, route, readerVars, app, authVars,
                 pdfVars, accordion>>

\* handleSubmit, and handleAnalyze up to its first await
handleSubmit(i, form) ==
  /\ Mounted(i)
  /\ ~view[i].isProcessing
  /\ view[i].file # Null
  /\ \E st \in CallStates :
       /\ upload(<<view[i].file>>, st)
       /\ run' = [run EXCEPT ![i] =
                    [IdleRun EXCEPT !.pc = "upload", !.form = form,
                                    !.file = view[i].file,
                                    !.pending = Call("fs.upload", view[i].file, st)]]
  /\ view' = [view EXCEPT ![i].isProcessing = TRUE,
                          ![i].statusText = "Uploading the file..."]
  /\ issued' = [issued EXCEPT ![i] = <<Steps[1]>>]
  /\ results' = [results EXCEPT ![i] = << >>]
  /\ kvSets' = [kvSets EXCEPT ![i] = << >>]
  /\ UNCHANGED <<puter, backendVars, cur, wipe, wiped, route,
                 readerVars, app, authVars,
                 pdfVars, uiVars>>

\* from the answer of the first fs.upload to the call of convertPdfToImage
AfterUpload(i) ==
  /\ run[i].pc = "upload"
  /\ \E res \in {Val([path |-> DocPath(i), name |-> run[i].file]),
                 Undefined, Threw} :
       /\ Await(run[i].pending, res, BackendUpload(run[i].file, DocPath(i), res))
       /\ IF res = Threw
            THEN Halt(i, "threw", Null) /\ Log(i, << >>, <<"threw">>)
          ELSE IF res = Undefined
            THEN /\ Halt(i, "aborted", "Error: Failed to upload file")
                 /\ Log(i, << >>, <<"fail">>)
          ELSE /\ run' = [run EXCEPT ![i].pc = "convert",
                                     ![i].pending = NoCall,
                                     ![i].uploadedFile = res.v]
               /\ view' = setStatusText(i, "Converting to image...")
               /\ Log(i, <<Steps[2]>>, <<"ok">>)
               /\ UNCHANGED <<storeVars, cur, route, readerVars, kvSets>>
  /\ UNCHANGED <<puter, wipe, wiped, app, authVars,
                 pdfVars, uiVars>>

\* Variant of AfterConvert that does not return when the conversion gave no
\* file.
AfterConvert_noGate(i) ==
  /\ run[i].pc = "convert"
  /\ \E imageFile \in ConvertResults(run[i].file) :
       \E st \in CallStates :
         /\ upload(<<imageFile.file>>, st)
         /\ run' = [run EXCEPT ![i].pc = "uploadImg",
                               ![i].imageFile = imageFile,
                               ![i].pending = Call("fs.upload", imageFile.file, st)]
         /\ view' = setStatusText(i, "Uploading the image...")
         /\ Log(i, <<Steps[3]>>,
                <<IF imageFile.file = Null THEN "fail" ELSE "ok">>)
         /\ UNCHANGED <<cur, route, readerVars, kvSets>>
  /\ UNCHANGED <<puter, backendVars, wipe, wiped, app, authVars,
                 pdfVars, uiVars>>

\* Variant of AfterConvert that deletes the uploaded document when the
\* conversion gave no file.
AfterConvert_rollback(i) ==
  /\ run[i].pc = "convert"
  /\ \E imageFile \in ConvertResults(run[i].file) :
       IF imageFile.file = Null
         THEN /\ Halt(i, "aborted", "Error: Failed to convert PDF to image")
              /\ Log(i, << >>, <<"fail">>)
              /\ fsFiles' = fsFiles \ {run[i].uploadedFile.path}
              /\ UNCHANGED kvStore
         ELSE \E st \in CallStates :
              /\ upload(<<imageFile.file>>, st)
              /\ run' = [run EXCEPT ![i].pc = "uploadImg",
                                    ![i].imageFile = imageFile,
                                    ![i].pending = Call("fs.upload", imageFile.file, st)]
              /\ view' = setStatusText(i, "Uploading the image...")
              /\ Log(i, <<Steps[3]>>, <<"ok">>)
              /\ UNCHANGED <<cur, route, readerVars, kvSets, backendVars>>
  /\ UNCHANGED <<puter, wipe, wiped, app, authVars,
                 pdfVars, uiVars>>

\* from the answer of convertPdfToImage to the call of the second fs.upload
AfterConvert(i) ==
  /\ run[i].pc = "convert"
  /\ \E imageFile \in ConvertResults(run[i].file) :
       IF imageFile.file = Null
         THEN /\ Halt(i, "aborted", "Error: Failed to convert PDF to image")
              /\ Log(i, << >>, <<"fail">>)
         ELSE \E st \in CallStates :
              /\ upload(<<imageFile.file>>, st)
              /\ run' = [run EXCEPT ![i].pc = "uploadImg",
                                    ![i].imageFile = imageFile,
                                    ![i].pending = Call("fs.upload", imageFile.file, st)]
              /\ view' = setStatusText(i, "Uploading the image...")
              /\ Log(i, <<Steps[3]>>, <<"ok">>)
              /\ UNCHANGED <<cur, route, readerVars, kvSets>>
  /\ UNCHANGED <<puter, backendVars, wipe, wiped, app, authVars,
                 pdfVars, uiVars>>

\* ------------------------------------------------------------ navigation
Route(path, id) == [path |-> path, id |-> id, next |-> ""]

\* An object URL, and the "" the URL states start with.
NoUrl == [url |-> FALSE]
createObjectURL(blob) == [url |-> TRUE, of |-> blob]

HomeOff == [pc |-> "off", pending |-> NoCall, resumes |-> << >>,
            loadingResumes |-> FALSE, cards |-> << >>]
DetailOff == [pc |-> "off", id |-> 0, pending |-> NoCall, data |-> Undefined,
              resumeUrl |-> NoUrl, imageUrl |-> NoUrl, feedback |-> NullValue]

\* The Upload instance that was mounted loses its state when the location
\* changes; the component of the new location is mounted with fresh state.
Unmounted == IF cur \in Runs THEN [view EXCEPT ![cur] = InitialView] ELSE view

\* The runs of handleDelete, one for each click of the Wipe button.
WipeJobs == 1..Max(MaxWipes, MaxClicks)
NoJob == [pc |-> "none", files |-> << >>, k |-> 0, pending |-> NoCall,
          stale |-> FALSE, settled |-> << >>]
WipeOff == [pc |-> "off", files |-> << >>, pending |-> NoCall,
            jobs |-> [j \in WipeJobs |-> NoJob], started |-> 0]

\* A handleDelete that is still running when its component goes away keeps
\* running; its setFiles no longer has an effect.
WipeLeft ==
  [WipeOff EXCEPT !.started = wipe.started,
                  !.jobs = [j \in WipeJobs |->
                             IF wipe.jobs[j].pc = "none" THEN NoJob
                             ELSE [wipe.jobs[j] EXCEPT !.stale = TRUE]]]

navigate(to) ==
  /\ route' = to
  /\ view' = Unmounted
  /\ wipe' = IF to.path = "/wipe" THEN [WipeLeft EXCEPT !.pc = "mounted"]
             ELSE WipeLeft
  /\ home' = IF to.path = "/" THEN [HomeOff EXCEPT !.pc = "mounted"] ELSE HomeOff
  /\ detail' = IF to.path = "/resume"
                 THEN [DetailOff EXCEPT !.pc = "mounted", !.id = to.id]
                 ELSE DetailOff

\* from the answer of the second fs.upload to the call of the first kv.set
AfterUploadImg(i) ==
  /\ run[i].pc = "uploadImg"
  /\ \E res \in {Val([path |-> ImgPath(i), name |-> run[i].imageFile.file]),
                 Undefined, Threw} :
       /\ Await(run[i].pending, res,
                BackendUpload(run[i].imageFile.file, ImgPath(i), res))
       /\ IF res = Threw
            THEN Halt(i, "threw", Null) /\ Log(i, << >>, <<"threw">>)
          ELSE IF res = Undefined
            THEN /\ Halt(i, "aborted", "Error: Failed to upload image")
                 /\ Log(i, << >>, <<"fail">>)
          ELSE LET uuid == generateUUID(i)
                   data == [id |-> uuid,
                            resumePath |-> run[i].uploadedFile.path,
                            imagePath |-> res.v.path,
                            companyName |-> run[i].form.companyName,
                            jobTitle |-> run[i].form.jobTitle,
                            jobDescription |-> run[i].form.jobDescription,
                            feedback |-> EmptyString]
               IN \E st \in CallStates :
                    /\ setKV(ResumeKey(uuid), Stringify(data), st)
                    /\ run' = [run EXCEPT ![i].pc = "kvSet1",
                                          ![i].uploadedImage = res.v,
                                          ![i].uuid = uuid,
                                          ![i].data = data,
                                          ![i].pending =
                                            CallSet(ResumeKey(uuid), Stringify(data), st)]
                    /\ kvSets' = [kvSets EXCEPT ![i] =
                                    Append(@, [key |-> ResumeKey(uuid),
                                               value |-> Stringify(data)])]
                    /\ view' = setStatusText(i, "Preparing data...")
                    /\ Log(i, <<Steps[4]>>, <<"ok">>)
                    /\ UNCHANGED <<cur, route, readerVars>>
  /\ UNCHANGED <<puter, wipe, wiped, app, authVars,
                 pdfVars, uiVars>>

\* from the answer of the first kv.set to the call of ai.feedback
AfterKvSet1(i) ==
  /\ run[i].pc = "kvSet1"
  /\ \E res \in {Val(TRUE), Val(FALSE), Undefined, Threw} :
       /\ Await(run[i].pending, res,
                BackendKvSet(run[i].pending.arg, run[i].pending.value, res))
       /\ IF res = Threw
            THEN Halt(i, "threw", Null) /\ Log(i, << >>, <<"threw">>)
            ELSE \E st \in CallStates :
                 /\ feedback(run[i].uploadedFile.path,
                             prepareInstructions(run[i].form.jobTitle,
                                                 run[i].form.jobDescription), st)
                 /\ run' = [run EXCEPT ![i].pc = "feedback",
                                       ![i].pending =
                                         Call("ai.feedback",
                                              run[i].uploadedFile.path, st)]
                 /\ view' = setStatusText(i, "Analyzing...")
                 /\ Log(i, <<Steps[5]>>, <<Outcome(res)>>)
                 /\ UNCHANGED <<cur, route, readerVars, kvSets>>
  /\ UNCHANGED <<puter, wipe, wiped, app, authVars,
                 pdfVars, uiVars>>

\* feedback.message.content, or feedback.message.content[0].text
ContentThrows(content) == content.kind = "array" /\ content.parts = << >>
feedbackText(content) ==
  IF content.kind = "string" THEN content.text ELSE content.parts[1].text

\* Variants of withFeedback: the parsed value is not assigned; the record is
\* rebuilt without the company name.
withFeedback_dropped(data, text) == data
withFeedback_rebuilt(data, text) ==
  [data EXCEPT !.feedback = Parse(text), !.companyName = "?"]

\* data.feedback = JSON.parse(feedbackText)
withFeedback(data, text) == [data EXCEPT !.feedback = Parse(text)]

\* from the answer of ai.feedback to the call of the second kv.set
AfterFeedback(i) ==
  /\ run[i].pc = "feedback"
  /\ \E res \in {Val(r) : r \in AiResponses} \cup {Undefined, Threw} :
       /\ Await(run[i].pending, res, BackendChat(res))
       /\ IF res = Threw
            THEN Halt(i, "threw", Null) /\ Log(i, << >>, <<"threw">>)
          ELSE IF res = Undefined
            THEN /\ Halt(i, "aborted", "Error: Failed to analyze resume")
                 /\ Log(i, << >>, <<"fail">>)
          ELSE IF ContentThrows(res.v.message.content)
            THEN Halt(i, "threw", Null) /\ Log(i, <<Steps[6]>>, <<"ok", "threw">>)
          ELSE IF ParseThrows(feedbackText(res.v.message.content))
            THEN Halt(i, "threw", Null) /\ Log(i, <<Steps[6]>>, <<"ok", "threw">>)
          ELSE LET data == withFeedback(run[i].data,
                                        feedbackText(res.v.message.content))
               IN \E st \in CallStates :
                    /\ setKV(ResumeKey(run[i].uuid), Stringify(data), st)
                    /\ kvSets' = [kvSets EXCEPT ![i] =
                                    Append(@, [key |-> ResumeKey(run[i].uuid),
                                               value |-> Stringify(data)])]
                    /\ run' = [run EXCEPT ![i].pc = "kvSet2",
                                          ![i].data = data,
                                          ![i].feedbackText =
                                            feedbackText(res.v.message.content),
                                          ![i].pending =
                                            CallSet(ResumeKey(run[i].uuid), Stringify(data), st)]
                    /\ view' = view
                    /\ Log(i, <<Steps[6], Steps[7]>>, <<"ok", "ok">>)
                    /\ UNCHANGED <<cur, route, readerVars>>
  /\ UNCHANGED <<puter, wipe, wiped, app, authVars,
                 pdfVars, uiVars>>

\* from the answer of the second kv.set to navigate()
AfterKvSet2(i) ==
  /\ run[i].pc = "kvSet2"
  /\ \E res \in {Val(TRUE), Val(FALSE), Undefined, Threw} :
       /\ Await(run[i].pending, res,
                BackendKvSet(run[i].pending.arg, run[i].pending.value, res))
       /\ IF res = Threw
            THEN Halt(i, "threw", Null) /\ Log(i, << >>, <<"threw">>)
            ELSE /\ run' = [run EXCEPT ![i].pc = "done", ![i].pending = NoCall]
                 /\ navigate(Route("/resume", run[i].uuid))
                 /\ Log(i, <<Steps[8]>>, <<Outcome(res), "ok">>)
                 /\ UNCHANGED <<storeVars, cur, kvSets>>
  /\ UNCHANGED <<puter, wiped, app, authVars,
                 pdfVars, uiVars>>

\* --------------------------------------------------------------- wipe.tsx
RECURSIVE Ascending(_)
Ascending(S) ==
  IF S = {} THEN << >>
  ELSE LET m == CHOOSE x \in S : \A y \in S : x <= y
       IN <<m>> \o Ascending(S \ {m})

\* The entries of the root directory, as FSItems.
DirEntries == [n \in 1..Cardinality(fsFiles) |-> [path |-> Ascending(fsFiles)[n]]]

BackendReadDir(res) ==
  /\ res \in {Val(DirEntries), Undefined, Threw}
  /\ UNCHANGED backendVars

BackendDelete(path, res) ==
  \/ /\ res = Val("void")
     /\ fsFiles' = fsFiles \ {path}
     /\ UNCHANGED kvStore
  \/ /\ res = Threw
     /\ UNCHANGED backendVars

BackendFlush(res) ==
  \/ /\ res = Val(TRUE)
     /\ kvStore' = << >>
     /\ UNCHANGED fsFiles
  \/ /\ res \in {Val(FALSE), Threw}
     /\ UNCHANGED backendVars

WipeMounted == route.path = "/wipe" /\ wipe.pc # "off"

\* The mount effect: loadFiles() up to its await.
WipeApp_loadFiles ==
  /\ route.path = "/wipe"
  /\ wipe.pc = "mounted"
  /\ \E st \in CallStates :
       /\ readDir("./", st)
       /\ wipe' = [wipe EXCEPT !.pc = "loading",
                               !.pending = Call("fs.readdir", "./", st)]
  /\ UNCHANGED <<puter, backendVars, uploadVars, wiped, route, readerVars, app, authVars,
                 pdfVars, uiVars>>

\* setFiles(files || []); nothing is set when the call rejected
FilesAfter(files, res) ==
  IF res = Threw THEN files ELSE IF res.k = "value" THEN res.v ELSE << >>

\* loadFiles() after its await
WipeApp_filesLoaded ==
  /\ wipe.pc = "loading"
  /\ \E res \in {Val(DirEntries), Undefined, Threw} :
       /\ Await(wipe.pending, res, BackendReadDir(res))
       /\ wipe' = [wipe EXCEPT !.pc = "idle", !.pending = NoCall,
                               !.files = FilesAfter(@, res)]
  /\ UNCHANGED <<puter, storeVars, uploadVars, wiped, route, readerVars, app, authVars,
                 pdfVars, uiVars>>

\* Variant of the guard of WipeApp without the isLoading check.
WipeApp_guard_eager ==
  /\ WipeMounted
  /\ ~isAuthenticated
  /\ navigate([path |-> "/auth", id |-> 0, next |-> "/wipe"])
  /\ UNCHANGED <<puter, storeVars, backendVars, cur, run, issued, results, kvSets,
                 wiped, app, authVars,
                 pdfVars, uiVars>>

\* The guard effect of WipeApp.
WipeApp_guard ==
  /\ WipeMounted
  /\ ~isLoading /\ ~isAuthenticated
  /\ navigate([path |-> "/auth", id |-> 0, next |-> "/wipe"])
  /\ UNCHANGED <<puter, storeVars, backendVars, cur, run, issued, results, kvSets,
                 wiped, app, authVars,
                 pdfVars, uiVars>>

\* One step of handleDelete's loop: fs.delete for files[k], or, past the
\* last file, kv.flush.
LoopCall(files, k, st) ==
  IF k <= Len(files) THEN deleteFile(files[k].path, st) ELSE flushKV(st)

\* Variant of LoopJob that goes on to kv.flush without the last delete.
LoopJob_early(job, files, k, st) ==
  IF k < Len(files)
    THEN [job EXCEPT !.pc = "deleting", !.files = files, !.k = k,
                     !.pending = Call("fs.delete", files[k].path, st)]
    ELSE [job EXCEPT !.pc = "flushing", !.files = files, !.k = k,
                     !.pending = Call("kv.flush", "", st)]

LoopJob(job, files, k, st) ==
  IF k <= Len(files)
    THEN [job EXCEPT !.pc = "deleting", !.files = files, !.k = k,
                     !.pending = Call("fs.delete", files[k].path, st)]
    ELSE [job EXCEPT !.pc = "flushing", !.files = files, !.k = k,
                     !.pending = Call("kv.flush", "", st)]

\* What a run of handleDelete has awaited so far.
Settle(job) ==
  [job EXCEPT !.settled = Append(@, [op |-> job.pending.op,
                                     arg |-> job.pending.arg])]

\* The Wipe button is rendered when the store is neither loading nor in
\* error, and stays enabled while a wipe runs; handleDelete runs up to its
\* first await with the files of the render it was clicked in.
handleDelete(n) ==
  /\ WipeMounted
  /\ wipe.pc \in {"loading", "idle"}
  /\ ~isLoading /\ error = Null
  /\ wipe.started < n
  /\ \E st \in CallStates :
       /\ LoopCall(wipe.files, 1, st)
       /\ wipe' = [wipe EXCEPT !.jobs[wipe.started + 1] =
                                 LoopJob(NoJob, wipe.files, 1, st),
                               !.started = @ + 1]
  /\ UNCHANGED <<puter, backendVars, uploadVars, wiped, route, readerVars, app, authVars,
                 pdfVars, uiVars>>

\* handleDelete after an awaited fs.delete
AfterDelete(j) ==
  LET job == wipe.jobs[j] IN
  /\ job.pc = "deleting"
  /\ \E res \in {Val("void"), Undefined, Threw} :
       /\ Await(job.pending, res, BackendDelete(job.pending.arg, res))
       /\ wiped' = IF res = Val("void") /\ job.pending.arg \in fsFiles
                     THEN [wiped EXCEPT !.paths = @ \cup {job.pending.arg}]
                     ELSE wiped
       /\ IF res = Threw
            THEN wipe' = [wipe EXCEPT !.jobs[j] = NoJob] /\ UNCHANGED storeVars
            ELSE \E st \in CallStates :
                   /\ LoopCall(job.files, job.k + 1, st)
                   /\ wipe' = [wipe EXCEPT !.jobs[j] =
                                 LoopJob(Settle(job), job.files, job.k + 1, st)]
  /\ UNCHANGED <<puter, uploadVars, route, readerVars, app, authVars,
                 pdfVars, uiVars>>

\* handleDelete after the awaited kv.flush: loadFiles() is called
AfterFlush(j) ==
  LET job == wipe.jobs[j] IN
  /\ job.pc = "flushing"
  /\ \E res \in {Val(TRUE), Val(FALSE), Undefined, Threw} :
       /\ Await(job.pending, res, BackendFlush(res))
       /\ wiped' = IF res = Val(TRUE)
                     THEN [wiped EXCEPT !.keys = @ \cup DOMAIN kvStore]
                     ELSE wiped
       /\ IF res = Threw
            THEN wipe' = [wipe EXCEPT !.jobs[j] = NoJob] /\ UNCHANGED storeVars
            ELSE \E st \in CallStates :
                   /\ readDir("./", st)
                   /\ wipe' = [wipe EXCEPT !.jobs[j] =
                                 [Settle(job) EXCEPT !.pc = "reloading",
                                    !.pending = Call("fs.readdir", "./", st)]]
  /\ UNCHANGED <<puter, uploadVars, route, readerVars, app, authVars,
                 pdfVars, uiVars>>

\* loadFiles() of handleDelete after its await
AfterReload(j) ==
  LET job == wipe.jobs[j] IN
  /\ job.pc = "reloading"
  /\ \E res \in {Val(DirEntries), Undefined, Threw} :
       /\ Await(job.pending, res, BackendReadDir(res))
       /\ wipe' = [wipe EXCEPT !.jobs[j] = NoJob,
                     !.files = IF job.stale THEN @ ELSE FilesAfter(@, res)]
  /\ UNCHANGED <<puter, storeVars, uploadVars, wiped, route, readerVars, app, authVars,
                 pdfVars, uiVars>>

\* ------------------------------------------------------ the environment
\* The Puter.js script finishes loading.
PuterAppears ==
  /\ ~puter
  /\ puter' = TRUE
  /\ UNCHANGED <<storeVars, backendVars, uploadVars, wipe, wiped, route,
                 readerVars, app, authVars,
                 pdfVars, uiVars>>

\* The user opens /upload: a new Upload instance is mounted.
GoUpload(n) ==
  /\ cur < n
  /\ cur' = cur + 1
  /\ navigate(Route("/upload", 0))
  /\ UNCHANGED <<puter, storeVars, backendVars, run, issued, results, kvSets,
                 wiped, app, authVars,
                 pdfVars, uiVars>>

\* The user opens /wipe.
GoWipe ==
  /\ route.path # "/wipe"
  /\ navigate(Route("/wipe", 0))
  /\ UNCHANGED <<puter, storeVars, backendVars, cur, run, issued, results, kvSets,
                 wiped, app, authVars,
                 pdfVars, uiVars>>

\* ------------------------------------------- home.tsx, ResumeCard.tsx
\* "resume:*"
ListPattern == [prefix |-> "resume:", glob |-> TRUE]

\* kv.list: the keys that match the pattern, here in the order of their
\* identifiers, each with its value.
Matches(pattern, key) ==
  IF pattern.glob THEN key.prefix = pattern.prefix
  ELSE key.prefix = pattern.prefix /\ key.id = pattern.id

KvItems(pattern) ==
  LET ids == {k.id : k \in {k \in DOMAIN kvStore : Matches(pattern, k)}}
      key(n) == CHOOSE k \in DOMAIN kvStore :
                  Matches(pattern, k) /\ k.id = Ascending(ids)[n]
  IN [n \in 1..Cardinality(ids) |-> [key |-> key(n), value |-> kvStore[key(n)]]]

\* Without returnValues the store answers with the keys alone.
KvKeys(pattern) ==
  [n \in 1..Len(KvItems(pattern)) |-> KvItems(pattern)[n].key]

ListAnswer(pattern, returnValues) ==
  IF returnValues THEN KvItems(pattern) ELSE KvKeys(pattern)

CallList(pattern, returnValues, st) ==
  [op |-> "kv.list", arg |-> pattern, values |-> returnValues, st |-> st]

BackendKvList(pattern, returnValues, res) ==
  /\ res \in {Val(ListAnswer(pattern, returnValues)), Threw}
  /\ UNCHANGED backendVars

BackendRead(path, res) ==
  /\ res \in (IF path \in fsFiles THEN {Val([blob |-> path])} ELSE {}) \cup {Threw}
  /\ UNCHANGED backendVars

\* Reading a property of a value: undefined when it has none of that name.
Get(obj, name) == IF name \in DOMAIN obj THEN Val(obj[name]) ELSE Undefined

Truthy(v) == v \notin {Undefined, NullValue, EmptyString}

\* ScoreCircle({ score = 75 }): the number it draws and prints.
ScoreCircle(score) == IF score = Undefined THEN 75 ELSE score.v

\* What a ResumeCard renders of its resume: the link and the score circle,
\* which is given feedback.overallScore whatever feedback is.  reads are the
\* properties of feedback it reads, scores the scores it displays.
ResumeCard(resume) ==
  [to |-> Route("/resume", resume.id),
   reads |-> {"overallScore"},
   scores |-> {Val(ScoreCircle(Get(resume.feedback, "overallScore")))}]

CardMounted == [pc |-> "mounted", pending |-> NoCall, resumeUrl |-> NoUrl]

\* Variant of Home_effects that lists the keys without their values.
Home_effects_keysOnly ==
  /\ home.pc = "mounted"
  /\ \E st \in CallStates :
       /\ listKV(ListPattern, FALSE, st)
       /\ IF ~isAuthenticated
            THEN navigate([path |-> "/auth", id |-> 0, next |-> "/"])
            ELSE /\ home' = [home EXCEPT !.pc = "listing",
                                         !.loadingResumes = TRUE,
                                         !.pending = CallList(ListPattern, FALSE, st)]
                 /\ UNCHANGED <<route, view, wipe, detail>>
  /\ UNCHANGED <<puter, backendVars, cur, run, issued, results, kvSets, wiped, app, authVars,
                 pdfVars, uiVars>>

\* The effects of Home on mount: the guard, then loadResumes() up to its
\* await.
Home_effects ==
  /\ home.pc = "mounted"
  /\ \E st \in CallStates :
       /\ listKV(ListPattern, TRUE, st)
       /\ IF ~isAuthenticated
            THEN navigate([path |-> "/auth", id |-> 0, next |-> "/"])
            ELSE /\ home' = [home EXCEPT !.pc = "listing",
                                         !.loadingResumes = TRUE,
                                         !.pending = CallList(ListPattern, TRUE, st)]
                 /\ UNCHANGED <<route, view, wipe, detail>>
  /\ UNCHANGED <<puter, backendVars, cur, run, issued, results, kvSets, wiped, app, authVars,
                 pdfVars, uiVars>>

\* loadResumes() after its await
Home_listed ==
  /\ home.pc = "listing"
  /\ \E res \in {Val(ListAnswer(home.pending.arg, home.pending.values)),
                 Undefined, Threw} :
       /\ Await(home.pending, res,
                BackendKvList(home.pending.arg, home.pending.values, res))
       /\ IF res = Threw
            THEN home' = [home EXCEPT !.pc = "rejected", !.pending = NoCall]
            ELSE IF res = Undefined
            THEN home' = [home EXCEPT !.pc = "shown", !.pending = NoCall,
                                      !.resumes = << >>, !.loadingResumes = FALSE]
            ELSE IF \E n \in 1..Len(res.v) :
                      \/ "value" \notin DOMAIN res.v[n]
                      \/ ParseThrows(res.v[n].value)
            THEN home' = [home EXCEPT !.pc = "threw", !.pending = NoCall]
            ELSE home' = [home EXCEPT
                   !.pc = "shown", !.pending = NoCall,
                   !.resumes = [n \in 1..Len(res.v) |-> Parse(res.v[n].value)],
                   !.loadingResumes = FALSE,
                   !.cards = [n \in 1..Len(res.v) |-> CardMounted]]
  /\ UNCHANGED <<puter, storeVars, uploadVars, wipe, wiped, route, detail, app, authVars,
                 pdfVars, uiVars>>

\* The effect of card n: loadResume() up to its await.
ResumeCard_loadResume(n) ==
  /\ home.pc = "shown"
  /\ n \in DOMAIN home.cards
  /\ home.cards[n].pc = "mounted"
  /\ \E st \in CallStates :
       /\ readFile(home.resumes[n].imagePath, st)
       /\ home' = [home EXCEPT !.cards[n].pc = "reading",
                               !.cards[n].pending =
                                  Call("fs.read", home.resumes[n].imagePath, st)]
  /\ UNCHANGED <<puter, backendVars, uploadVars, wipe, wiped, route, detail, app, authVars,
                 pdfVars, uiVars>>

\* loadResume() of card n after its await
ResumeCard_afterRead(n) ==
  /\ home.pc = "shown"
  /\ n \in DOMAIN home.cards
  /\ home.cards[n].pc = "reading"
  /\ \E res \in {Val([blob |-> home.cards[n].pending.arg]), Undefined, Threw} :
       /\ Await(home.cards[n].pending, res,
                BackendRead(home.cards[n].pending.arg, res))
       /\ home' = [home EXCEPT
              !.cards[n] = [pc |-> IF res = Threw THEN "threw" ELSE "done",
                            pending |-> NoCall,
                            resumeUrl |-> IF res \in {Threw, Undefined} THEN NoUrl
                                          ELSE createObjectURL(res.v)]]
  /\ UNCHANGED <<puter, storeVars, uploadVars, wipe, wiped, route, detail, app, authVars,
                 pdfVars, uiVars>>

\* The user follows the link of card n.
ResumeCard_click(n) ==
  /\ home.pc = "shown"
  /\ n \in DOMAIN home.cards
  /\ navigate(ResumeCard(home.resumes[n]).to)
  /\ UNCHANGED <<puter, storeVars, backendVars, cur, run, issued, results, kvSets,
                 wiped, app, authVars,
                 pdfVars, uiVars>>

\* ----------------------------------------------------------- resume.tsx
\* Variant of DetailKey that leaves out the colon.
DetailKey_noColon(id) == Key("resume", id)

\* `resume:${id}`
DetailKey(id) == Key("resume:", id)

BackendKvGet(key, res) ==
  /\ res \in {IF key \in DOMAIN kvStore THEN Val(kvStore[key]) ELSE Val(NullValue),
              Threw}
  /\ UNCHANGED backendVars

\* The guard effect of Resume.
Resume_guard ==
  /\ detail.pc # "off"
  /\ ~isLoading /\ ~isAuthenticated
  /\ navigate([path |-> "/auth", id |-> detail.id, next |-> "/resume"])
  /\ UNCHANGED <<puter, storeVars, backendVars, cur, run, issued, results, kvSets,
                 wiped, app, authVars,
                 pdfVars, uiVars>>

\* The load effect of Resume: loadResume() up to its first await.
Resume_loadResume ==
  /\ detail.pc = "mounted"
  /\ \E st \in CallStates :
       /\ getKV(DetailKey(detail.id), st)
       /\ detail' = [detail EXCEPT !.pc = "getting",
                                   !.pending = Call("kv.get", DetailKey(detail.id), st)]
  /\ UNCHANGED <<puter, backendVars, uploadVars, wipe, wiped, route, home, app, authVars,
                 pdfVars, uiVars>>

DetailStop(pc) == [detail EXCEPT !.pc = pc, !.pending = NoCall]

\* from the answer of kv.get to the call of the first fs.read
Resume_afterGet ==
  /\ detail.pc = "getting"
  /\ \E res \in {IF detail.pending.arg \in DOMAIN kvStore
                   THEN Val(kvStore[detail.pending.arg]) ELSE Val(NullValue),
                 Undefined, Threw} :
       /\ Await(detail.pending, res, BackendKvGet(detail.pending.arg, res))
       /\ IF res = Threw
            THEN detail' = DetailStop("threw") /\ UNCHANGED storeVars
            ELSE IF res = Undefined \/ res.v = NullValue
            THEN detail' = DetailStop("returned") /\ UNCHANGED storeVars
            ELSE IF ParseThrows(res.v)
            THEN detail' = DetailStop("threw") /\ UNCHANGED storeVars
            ELSE \E st \in CallStates :
                   /\ readFile(Parse(res.v).resumePath, st)
                   /\ detail' = [detail EXCEPT
                          !.pc = "readingPdf", !.data = Parse(res.v),
                          !.pending = Call("fs.read", Parse(res.v).resumePath, st)]
  /\ UNCHANGED <<puter, uploadVars, wipe, wiped, route, home, app, authVars,
                 pdfVars, uiVars>>

\* from the answer of the first fs.read to the call of the second
Resume_afterPdf ==
  /\ detail.pc = "readingPdf"
  /\ \E res \in {Val([blob |-> detail.pending.arg]), Undefined, Threw} :
       /\ Await(detail.pending, res, BackendRead(detail.pending.arg, res))
       /\ IF res = Threw
            THEN detail' = DetailStop("threw") /\ UNCHANGED storeVars
            ELSE IF res = Undefined
            THEN detail' = DetailStop("returned") /\ UNCHANGED storeVars
            ELSE \E st \in CallStates :
                   /\ readFile(detail.data.imagePath, st)
                   /\ detail' = [detail EXCEPT
                          !.pc = "readingImg",
                          !.resumeUrl = createObjectURL(res.v),
                          !.pending = Call("fs.read", detail.data.imagePath, st)]
  /\ UNCHANGED <<puter, uploadVars, wipe, wiped, route, home, app, authVars,
                 pdfVars, uiVars>>

\* from the answer of the second fs.read to the end of loadResume()
Resume_afterImg ==
  /\ detail.pc = "readingImg"
  /\ \E res \in {Val([blob |-> detail.pending.arg]), Undefined, Threw} :
       /\ Await(detail.pending, res, BackendRead(detail.pending.arg, res))
       /\ detail' = IF res = Threw THEN DetailStop("threw")
                    ELSE IF res = Undefined THEN DetailStop("returned")
                    ELSE [detail EXCEPT !.pc = "loaded", !.pending = NoCall,
                                        !.imageUrl = createObjectURL(res.v),
                                        !.feedback = detail.data.feedback]
  /\ UNCHANGED <<puter, storeVars, uploadVars, wipe, wiped, route, home, app, authVars,
                 pdfVars, uiVars>>

\* What Resume renders in its right column: the feedback components with
\* the scores they are given, or the loading animation.
Resume_render ==
  IF Truthy(detail.feedback)
    THEN [shows |-> "feedback",
          reads |-> {"overallScore", "ATS", "toneAndStyle", "content",
                     "structure", "skills"},
          scores |-> {Get(detail.feedback, "overallScore")}]
    ELSE [shows |-> "animation", reads |-> {}, scores |-> {}]

\* The user opens "/".
GoHome ==
  /\ route.path # "/"
  /\ navigate(Route("/", 0))
  /\ UNCHANGED <<puter, storeVars, backendVars, cur, run, issued, results, kvSets,
                 wiped, app, authVars,
                 pdfVars, uiVars>>

\* ------------------------------------------------------------- auth.tsx
\* ---------------------------------------------------------- Accordion
\* The itemId values of the sections Details renders.
ItemIds == {"tone-style", "content", "structure", "skills"}

Includes(seq, x) == \E n \in 1..Len(seq) : seq[n] = x
Filter(seq, x) == SelectSeq(seq, LAMBDA item : item # x)

\* useState(defaultOpen ? [defaultOpen] : []) with the allowMultiple prop;
\* last and before record the latest toggleItem call and the activeItems it
\* found, repeat whether the call before it named the same item.
Accordion(defaultOpen, allowMultiple) ==
  [allowMultiple |-> allowMultiple,
   activeItems |-> IF defaultOpen # "" THEN <<defaultOpen>> ELSE << >>,
   last |-> "", before |-> << >>, repeat |-> FALSE]

\* Variant of toggleItem that adds an inactive item in either mode.
toggleItem_append(prev, id, allowMultiple) ==
  IF Includes(prev, id) THEN Filter(prev, id) ELSE Append(prev, id)

\* The updater toggleItem passes to setActiveItems.
toggleItem(prev, id, allowMultiple) ==
  IF allowMultiple
    THEN IF Includes(prev, id) THEN Filter(prev, id) ELSE Append(prev, id)
    ELSE IF Includes(prev, id) THEN << >> ELSE <<id>>

\* A click on the header of a section.
AccordionHeader_handleClick(itemId) ==
  /\ accordion' = [accordion EXCEPT
                     !.activeItems = toggleItem(@, itemId, accordion.allowMultiple),
                     !.last = itemId,
                     !.repeat = (accordion.last = itemId),
                     !.before = accordion.activeItems]
  /\ UNCHANGED <<puter, storeVars, backendVars, uploadVars, wipe, wiped, route,
                 readerVars, app, authVars, pdfVars, uploader>>

NotViews == <<puter, storeVars, backendVars, cur, run, issued, results, kvSets,
              wiped, app, boot, tasks, pdfVars, uiVars>>

\* location.search.split("next=")[1]: undefined when the query has no next
NextOf(r) == IF r.next = "" THEN Undefined ELSE Val(r.next)

\* The effect of Auth, run when it mounts and when auth.isAuthenticated or
\* next changes.  navigate(undefined) resolves to the current location.
Auth_effect ==
  /\ route.path = "/auth"
  /\ isAuthenticated
  /\ Len(redirects) < MaxRedirects
  /\ redirects' = Append(redirects, NextOf(route))
  /\ IF NextOf(route) = Undefined
       THEN UNCHANGED <<route, view, wipe, home, detail>>
       ELSE navigate(Route(NextOf(route).v, route.id))
  /\ UNCHANGED NotViews

\* The button of Auth: Log Out when authenticated, Log In when not, and no
\* handler while isLoading.
Auth_click(t) ==
  /\ route.path = "/auth"
  /\ ~isLoading
  /\ t \in 1..MaxAuthCalls
  /\ tasks[t].pc = "idle"
  /\ \A u \in 1..(t - 1) : tasks[u].pc # "idle"
  /\ IF isAuthenticated THEN signOut(t) ELSE signIn(t)
  /\ UNCHANGED <<puter, backendVars, uploadVars, wipe, wiped, route, readerVars,
                 app, boot, redirects, pdfVars, uiVars>>

\* The guard of Home run again because auth.isAuthenticated changed.
Home_guard ==
  /\ home.pc \notin {"off", "mounted"}
  /\ ~isAuthenticated
  /\ navigate([path |-> "/auth", id |-> 0, next |-> "/"])
  /\ UNCHANGED <<NotViews, redirects>>

\* The user opens the URL of a record, or of the auth view without a query.
GoResume ==
  /\ route.path # "/resume"
  /\ \E id \in 1..ReaderRuns : navigate(Route("/resume", id))
  /\ UNCHANGED <<NotViews, redirects>>

GoAuth ==
  /\ route.path # "/auth"
  /\ navigate(Route("/auth", 0))
  /\ UNCHANGED <<NotViews, redirects>>

\* ------------------------------------------------- direct use of the facade
\* A component that calls the helpers of the store one at a time, with
\* arguments of its choosing, and awaits each answer.
FacadePaths == {1, 2}
FacadeKeys == {Key("resume:", 1), Key("note:", 1)}
FacadeTexts == {Stringify(EmptyString), NotJson}

NoResult == [k |-> "none"]
AppIdle == [pending |-> NoCall, last |-> "none", result |-> NoResult]
Calling(p) == [pending |-> p, last |-> p.op, result |-> NoResult]

BackendWrite(path, res) ==
  \/ /\ res = Val([path |-> path])
     /\ fsFiles' = fsFiles \cup {path}
     /\ UNCHANGED kvStore
  \/ /\ res \in {Undefined, Threw}
     /\ UNCHANGED backendVars

BackendImg2txt(res) ==
  /\ res \in {Val("text"), Threw}
  /\ UNCHANGED backendVars

BackendKvDelete(key, res) ==
  \/ /\ res = Val(TRUE)
     /\ kvStore' = [k \in DOMAIN kvStore \ {key} |-> kvStore[k]]
     /\ UNCHANGED fsFiles
  \/ /\ res \in {Val(FALSE), Threw}
     /\ UNCHANGED backendVars

App_call ==
  /\ app.pending = NoCall
  /\ \E st \in CallStates :
       \/ \E path \in FacadePaths :
            \/ write(path, "data", st) /\ app' = Calling(Call("fs.write", path, st))
            \/ readFile(path, st) /\ app' = Calling(Call("fs.read", path, st))
            \/ upload(<<"file">>, st) /\ app' = Calling(Call("fs.upload", path, st))
            \/ deleteFile(path, st) /\ app' = Calling(Call("fs.delete", path, st))
            \/ feedback(path, "message", st)
                 /\ app' = Calling(Call("ai.feedback", path, st))
       \/ readDir("./", st) /\ app' = Calling(Call("fs.readdir", "./", st))
       \/ chat("prompt", st) /\ app' = Calling(Call("ai.chat", "prompt", st))
       \/ img2txt("image", st) /\ app' = Calling(Call("ai.img2txt", "image", st))
       \/ \E key \in FacadeKeys :
            \/ getKV(key, st) /\ app' = Calling(Call("kv.get", key, st))
            \/ deleteKV(key, st) /\ app' = Calling(Call("kv.delete", key, st))
            \/ \E value \in FacadeTexts :
                 setKV(key, value, st) /\ app' = Calling(CallSet(key, value, st))
       \/ \E returnValues \in BOOLEAN :
            /\ listKV(ListPattern, returnValues, st)
            /\ app' = Calling(CallList(ListPattern, returnValues, st))
       \/ flushKV(st) /\ app' = Calling(Call("kv.flush", "", st))
  /\ UNCHANGED <<puter, backendVars, uploadVars, wipe, wiped, route, readerVars,
                 authVars, pdfVars, uiVars>>

\* A caller that only reads one record: kv.get(key)
App_get ==
  /\ app.pending = NoCall
  /\ \E st \in CallStates :
       getKV(DetailKey(1), st) /\ app' = Calling(Call("kv.get", DetailKey(1), st))
  /\ UNCHANGED <<puter, backendVars, uploadVars, wipe, wiped, route, readerVars,
                 authVars, pdfVars, uiVars>>

BackendOf(p, res) ==
  CASE p.op = "fs.write" -> BackendWrite(p.arg, res)
    [] p.op = "fs.read" -> BackendRead(p.arg, res)
    [] p.op = "fs.upload" -> BackendUpload("file", p.arg, res)
    [] p.op = "fs.delete" -> BackendDelete(p.arg, res)
    [] p.op = "fs.readdir" -> BackendReadDir(res)
    [] p.op \in {"ai.chat", "ai.feedback"} -> BackendChat(res)
    [] p.op = "ai.img2txt" -> BackendImg2txt(res)
    [] p.op = "kv.get" -> BackendKvGet(p.arg, res)
    [] p.op = "kv.set" -> BackendKvSet(p.arg, p.value, res)
    [] p.op = "kv.delete" -> BackendKvDelete(p.arg, res)
    [] p.op = "kv.list" -> BackendKvList(p.arg, p.values, res)
    [] p.op = "kv.flush" -> BackendFlush(res)

\* What the backend may answer to a call.
Answers(p) ==
  {Undefined, Threw} \cup
  CASE p.op = "fs.write" -> {Val([path |-> p.arg])}
    [] p.op = "fs.read" -> {Val([blob |-> p.arg])}
    [] p.op = "fs.upload" -> {Val([path |-> p.arg, name |-> "file"])}
    [] p.op = "fs.delete" -> {Val("void")}
    [] p.op = "fs.readdir" -> {Val(DirEntries)}
    [] p.op \in {"ai.chat", "ai.feedback"} -> {Val(r) : r \in AiResponses}
    [] p.op = "ai.img2txt" -> {Val("text")}
    [] p.op = "kv.get" -> {Val(NullValue)} \cup {Val(t) : t \in FacadeTexts}
    [] p.op \in {"kv.set", "kv.delete", "kv.flush"} -> {Val(TRUE), Val(FALSE)}
    [] p.op = "kv.list" -> {Val(ListAnswer(p.arg, p.values))}

App_return ==
  /\ app.pending # NoCall
  /\ \E res \in Answers(app.pending) :
       /\ Await(app.pending, res, BackendOf(app.pending, res))
       /\ app' = [app EXCEPT !.pending = NoCall, !.result = res]
  /\ UNCHANGED <<puter, storeVars, uploadVars, wipe, wiped, route, readerVars,
                 authVars, pdfVars, uiVars>>

\* ------------------------------------------------------- specification
\* The store as created (usePuterStore initial state), and the store after
\* init() found Puter.js and checkAuthStatus() found the user signed in.
StoreCreated ==
  /\ puter = FALSE /\ isLoading = TRUE /\ error = Null /\ puterReady = FALSE
  /\ user = Null /\ isAuthenticated = FALSE /\ getUser = Live

StoreSignedIn ==
  /\ puter = TRUE /\ isLoading = FALSE /\ error = Null /\ puterReady = TRUE
  /\ user = "alice" /\ isAuthenticated = TRUE /\ getUser = Closure("alice")

InitScreens ==
  /\ cur = 0
  /\ view = [i \in Runs |-> InitialView]
  /\ run = [i \in Runs |-> IdleRun]
  /\ issued = [i \in Runs |-> << >>]
  /\ results = [i \in Runs |-> << >>]
  /\ kvSets = [i \in Runs |-> << >>]
  /\ wipe = WipeOff
  /\ wiped = [paths |-> {}, keys |-> {}]
  /\ route = Route("/", 0)
  /\ home = [HomeOff EXCEPT !.pc = "mounted"]
  /\ detail = DetailOff
  /\ app = AppIdle
  /\ boot = BootIdle
  /\ tasks = [t \in TaskIds |-> NoTask]
  /\ redirects = << >>
  /\ pdf = PdfModule
  /\ conv = [c \in Converts |-> ConvIdle]
  /\ uploader = [i \in Runs |-> DropzoneIdle]

\* Details mounts its Accordion with neither defaultOpen nor allowMultiple.
InitViews == InitScreens /\ accordion = Accordion("", FALSE)

InitRest == fsFiles = {} /\ kvStore = << >> /\ InitViews

Init == (StoreCreated \/ StoreSignedIn) /\ InitRest

Pipeline ==
  \E i \in Runs :
    \/ \E file \in Files \cup {Null} : handleFileSelect(i, file)
    \/ \E form \in FormInputs \cap {TypedForm(i)} : handleSubmit(i, form)
    \/ AfterUpload(i)
    \/ AfterConvert(i)
    \/ AfterUploadImg(i)
    \/ AfterKvSet1(i)
    \/ AfterFeedback(i)
    \/ AfterKvSet2(i)

Wipe ==
  \/ WipeApp_loadFiles
  \/ WipeApp_filesLoaded
  \/ WipeApp_guard
  \/ handleDelete(MaxWipes)
  \/ \E j \in WipeJobs : AfterDelete(j) \/ AfterFlush(j) \/ AfterReload(j)

Next == PuterAppears \/ GoUpload(MaxRuns) \/ Pipeline

Spec == Init /\ [][Next]_vars

\* The pipeline together with the bulk wipe.
NextWipe == PuterAppears \/ GoUpload(WipeRuns) \/ Pipeline \/ GoWipe \/ Wipe

SpecWipe == Init /\ [][NextWipe]_vars

\* The pipeline together with the readers of the records.
Readers ==
  \/ Home_effects
  \/ Home_listed
  \/ \E n \in Runs :
       \/ ResumeCard_loadResume(n)
       \/ ResumeCard_afterRead(n)
       \/ ResumeCard_click(n)
  \/ Resume_guard
  \/ Resume_loadResume
  \/ Resume_afterGet
  \/ Resume_afterPdf
  \/ Resume_afterImg

NextReaders ==
  PuterAppears \/ GoUpload(ReaderRuns) \/ Pipeline \/ GoHome \/ Readers

SpecReaders == Init /\ [][NextReaders]_vars

\* Direct calls of the helpers, before and after Puter.js is there.
NextFacade == PuterAppears \/ App_call \/ App_return

SpecFacade == Init /\ [][NextFacade]_vars

\* The store from its creation, with Puter.js there from the start or
\* appearing at some time or never.
InitStore ==
  /\ puter \in BOOLEAN
  /\ isLoading = TRUE /\ error = Null /\ puterReady = FALSE
  /\ user = Null /\ isAuthenticated = FALSE /\ getUser = Live
  /\ InitRest

AuthSteps ==
  \E t \in TaskIds :
    \/ auth_call(t)
    \/ AfterSignIn(t)
    \/ AfterIsSignedIn(t)
    \/ AfterGetUser(t)
    \/ AfterSignOut(t)

\* init(), its polling and its timeout, and the checkAuthStatus() it starts.
NextInit ==
  PuterAppears \/ init \/ Tick \/ Timeout \/ AfterIsSignedIn(0) \/ AfterGetUser(0)

SpecInit == InitStore /\ [][NextInit]_vars

\* init() is called by the root layout when it mounts, timers that are set
\* run, and the backend answers the calls of the auth check.
SpecInitFair ==
  /\ SpecInit
  /\ WF_vars(init) /\ WF_vars(Tick) /\ WF_vars(Timeout)
  /\ WF_vars(AfterIsSignedIn(0)) /\ WF_vars(AfterGetUser(0))

\* The auth operations, called in any order and overlapping.
NextAuth == PuterAppears \/ AuthSteps

SpecAuth == InitStore /\ [][NextAuth]_vars

\* The app from its start at "/" with Puter.js loaded: init() and its auth
\* check, the guards of the protected views, the Auth view and a user who
\* opens views.
InitNav == InitStore /\ puter

NextNav ==
  \/ init
  \/ \E t \in TaskIds :
       \/ Auth_click(t)
       \/ AfterSignIn(t)
       \/ AfterIsSignedIn(t)
       \/ AfterGetUser(t)
       \/ AfterSignOut(t)
  \/ Home_effects \/ Home_guard \/ Resume_guard \/ WipeApp_guard
  \/ Auth_effect
  \/ GoHome \/ GoWipe \/ GoResume \/ GoAuth

SpecNav == InitNav /\ [][NextNav]_vars

\* A session of a signed-in user whose earlier upload left its document
\* and its preview in the file system: the wipe view and its button.
InitStored ==
  /\ StoreSignedIn
  /\ fsFiles = {DocPath(1), ImgPath(1)} /\ kvStore = << >>
  /\ InitViews

NextStored ==
  \/ GoWipe \/ GoHome
  \/ WipeApp_loadFiles \/ WipeApp_filesLoaded
  \/ handleDelete(MaxClicks)
  \/ \E j \in WipeJobs : AfterDelete(j) \/ AfterFlush(j) \/ AfterReload(j)

SpecStored == InitStored /\ [][NextStored]_vars

\* The store in use: init() with Puter.js there or not yet, the auth
\* operations and the fs, ai and kv helpers, called in any order and
\* overlapping.
NextSession == PuterAppears \/ init \/ AuthSteps \/ App_get \/ App_return

SpecSession == InitStore /\ [][NextSession]_vars

\* A session of a signed-in user with the files of earlier analyses in the
\* backend, any of their records (intact or not parseable) and possibly an
\* entry of another prefix: Home, its cards and the detail view.
StoredRecord(i) ==
  Stringify([id |-> i, resumePath |-> DocPath(i), imagePath |-> ImgPath(i),
             companyName |-> TypedForm(i).companyName,
             jobTitle |-> TypedForm(i).jobTitle,
             jobDescription |-> TypedForm(i).jobDescription,
             feedback |-> FullFeedback(80, 70)])

StoredKeys == {ResumeKey(i) : i \in 1..MaxStored} \cup {Key("note:", 1)}

InitListed ==
  /\ StoreSignedIn
  /\ fsFiles = UNION {{DocPath(i), ImgPath(i)} : i \in 1..MaxStored}
  /\ \E stored \in SUBSET StoredKeys : \E broken \in SUBSET stored :
       kvStore = [k \in stored |->
                    IF k.prefix = "resume:" /\ k \notin broken
                    THEN StoredRecord(k.id) ELSE NotJson]
  /\ InitViews

NextListed ==
  \/ Home_effects \/ Home_listed
  \/ \E n \in 1..MaxStored :
       ResumeCard_loadResume(n) \/ ResumeCard_afterRead(n) \/ ResumeCard_click(n)
  \/ Resume_loadResume \/ Resume_afterGet \/ Resume_afterPdf \/ Resume_afterImg
  \/ GoHome \/ GoWipe

SpecListed == InitListed /\ [][NextListed]_vars

\* The upload form with its FileUploader: drops, the remove button, submit
\* and the first steps of the pipeline.
NextUploader ==
  \/ GoUpload(MaxRuns)
  \/ \E i \in Runs :
       \/ \E drop \in Drops : FileUploader_onDrop(i, drop)
       \/ FileUploader_remove(i)
       \/ handleSubmit(i, TypedForm(i))
       \/ AfterUpload(i)
       \/ AfterConvert(i)

InitUploader == StoreSignedIn /\ InitRest

SpecUploader == InitUploader /\ [][NextUploader]_vars

\* An Accordion with any default item, in either mode, and clicks on its
\* headers.
InitAccordion ==
  /\ StoreSignedIn
  /\ fsFiles = {} /\ kvStore = << >>
  /\ InitScreens
  /\ \E defaultOpen \in ItemIds \cup {""}, allowMultiple \in BOOLEAN :
       accordion = Accordion(defaultOpen, allowMultiple)

NextAccordion == \E itemId \in ItemIds : AccordionHeader_handleClick(itemId)

SpecAccordion == InitAccordion /\ [][NextAccordion]_vars

\* Calls of the converter, overlapping and one after the other.
NextPdf ==
  \/ ImportSettles
  \/ \E c \in Converts :
       convertPdfToImage(c) \/ AfterLoad(c) \/ AfterStage(c) \/ AfterToBlob(c)

SpecPdf == Init /\ [][NextPdf]_vars

\* ------------------------------------------------------------ properties
IsPrefix(s, t) == Len(s) <= Len(t) /\ \A k \in 1..Len(s) : s[k] = t[k]

\* The steps after which handleAnalyze returns on a falsy answer, and the
\* status text it sets there.
AbortPoints == {1, 2, 3, 5}
AbortMessage(k) ==
  CASE k = 1 -> "Error: Failed to upload file"
    [] k = 2 -> "Error: Failed to convert PDF to image"
    [] k = 3 -> "Error: Failed to upload image"
    [] k = 5 -> "Error: Failed to analyze resume"

Failed(i, k) == Len(results[i]) >= k /\ results[i][k] = "fail"

CategoryKeys == {"toneAndStyle", "content", "structure", "skills"}
ValidFeedback(f) ==
  /\ f.t = "obj"
  /\ "overallScore" \in DOMAIN f
  /\ f.overallScore \in 0..100
  /\ \A c \in CategoryKeys : c \in DOMAIN f /\ f[c].score \in 0..100

\* C1, as stated: the steps of handleAnalyze are issued in the fixed order
\* and a step is issued only if the step before it succeeded, the two kv.set
\* calls included.
C1_EveryStepGated ==
  \A i \in Runs :
    /\ IsPrefix(issued[i], Steps)
    /\ \A k \in 2..Len(issued[i]) : results[i][k - 1] = "ok"

\* C1, amended: the steps are issued in the fixed order, each only after the
\* step before it has finished; a step is issued only if the step before it
\* succeeded, except that the answer of a kv.set is not looked at: the step
\* after a kv.set is issued whenever the kv.set did not reject.
C1_OrderedAndGated ==
  \A i \in Runs :
    /\ IsPrefix(issued[i], Steps)
    /\ Len(results[i]) <= Len(issued[i])
    /\ Len(issued[i]) <= Len(results[i]) + 1
    /\ \A k \in 2..Len(issued[i]) :
         \/ results[i][k - 1] = "ok"
         \/ /\ issued[i][k - 1] \in {"checkpoint kv.set", "final kv.set"}
            /\ results[i][k - 1] = "fail"

\* A run went through all eight steps although its checkpoint kv.set
\* answered false.
C1_Witness ==
  \E i \in Runs : issued[i] = Steps /\ results[i][4] = "fail"

\* A run all of whose steps succeeded, the AI text being a JSON object.
AllSucceeded(i) ==
  /\ run[i].pc = "done"
  /\ \A k \in 1..Len(results[i]) : results[i][k] = "ok"
  /\ Parse(run[i].feedbackText).t = "obj"

\* C2: a run in which every call succeeds makes exactly two kv.set calls, both
\* with the key of its one identifier, the first with feedback "", the
\* second with the feedback object parsed from the AI text, which is what
\* the store then holds; navigate is issued only after the second kv.set
\* has been answered.
C2_TwoWritesThenNavigate ==
  \A i \in Runs :
    /\ AllSucceeded(i) =>
         /\ Len(kvSets[i]) = 2
         /\ kvSets[i][1].key = ResumeKey(run[i].uuid)
         /\ kvSets[i][2].key = ResumeKey(run[i].uuid)
         /\ Parse(kvSets[i][1].value).id = run[i].uuid
         /\ Parse(kvSets[i][2].value).id = run[i].uuid
         /\ Parse(kvSets[i][1].value).feedback = EmptyString
         /\ Parse(kvSets[i][2].value).feedback = Parse(run[i].feedbackText)
         /\ Parse(kvSets[i][2].value).feedback.t = "obj"
         /\ kvStore[ResumeKey(run[i].uuid)] = kvSets[i][2].value
    /\ (Len(issued[i]) = 8) =>
         /\ Len(kvSets[i]) = 2
         /\ Len(results[i]) = 8
         /\ results[i][7] # "threw"

C2_Witness ==
  \E i \in Runs : AllSucceeded(i) /\ route = Route("/resume", run[i].uuid)

\* C3: when a step at an abort point gives a falsy answer (no handle, no
\* file, no response) the run is over with nothing issued after that step
\* and, in the mounted view, the status text of that step; after a failed
\* first upload the converter is not called.
C3_AbortStopsWithMessage ==
  \A i \in Runs : \A k \in AbortPoints :
    Failed(i, k) =>
      /\ run[i].pc = "aborted"
      /\ run[i].pending = NoCall
      /\ Len(issued[i]) = k
      /\ Mounted(i) => view[i].statusText = AbortMessage(k)
      /\ k = 1 => "convert" \notin {issued[i][n] : n \in 1..Len(issued[i])}

C3_Witness ==
  \E i \in Runs :
    /\ Mounted(i)
    /\ results[i] = <<"fail">>
    /\ view[i].statusText = "Error: Failed to upload file"

\* C4: after an abort no step is issued again and nothing is rolled back: the
\* files uploaded and the record written by the steps that succeeded are
\* still stored, the record unchanged, unless the bulk wipe removed them.
C4_NoRetryNoRollback ==
  \A i \in Runs : \A k \in AbortPoints :
    Failed(i, k) =>
      /\ IsPrefix(issued[i], Steps)
      /\ Len(issued[i]) = k
      /\ k > 1 => DocPath(i) \in fsFiles \cup wiped.paths
      /\ k > 3 => ImgPath(i) \in fsFiles \cup wiped.paths
      /\ (k = 5 /\ results[i][4] = "ok") =>
           \/ ResumeKey(i) \in wiped.keys
           \/ /\ ResumeKey(i) \in DOMAIN kvStore
              /\ kvStore[ResumeKey(i)] = kvSets[i][1].value
              /\ Parse(kvStore[ResumeKey(i)]).feedback = EmptyString

\* The analysis failed and the document, the preview and the checkpoint
\* record are all still stored.
C4_Witness ==
  \E i \in Runs :
    /\ Failed(i, 5)
    /\ {DocPath(i), ImgPath(i)} \subseteq fsFiles
    /\ ResumeKey(i) \in DOMAIN kvStore
    /\ wipe.started > 0

\* C5, as stated: after a pipeline-stage failure the mounted upload view no
\* longer has its processing flag set, so the form is rendered again.
C5_FormShownAfterFailure ==
  \A i \in Runs : (Mounted(i) /\ run[i].pc = "aborted") => ~view[i].isProcessing

\* The fields of a stored record other than its feedback.
Fields(text) ==
  [f \in DOMAIN Parse(text) \ {"feedback"} |-> Parse(text)[f]]

C9_StoredScoresInRange ==
  \A key \in DOMAIN kvStore :
    \/ Parse(kvStore[key]).feedback = EmptyString
    \/ ValidFeedback(Parse(kvStore[key]).feedback)

CheckpointWritten(i) == Len(results[i]) >= 4 /\ results[i][4] = "ok"

\* C6: once the checkpoint kv.set of a run has succeeded the record is stored
\* under the key made of "resume:" and its identifier, which is the key the
\* detail view reads for that identifier and which matches the pattern the
\* listing queries; a listing answered by the backend contains the record
\* and a kv.get of the detail view for the identifier answered by the
\* backend yields it, also while its feedback is still "".
C6_CheckpointDiscoverable ==
  [][\A i \in Runs :
       CheckpointWritten(i) =>
         LET key == kvSets[i][1].key
         IN /\ key = Key("resume:", Parse(kvSets[i][1].value).id)
            /\ key \in DOMAIN kvStore
            /\ Parse(kvStore[key]).id = i
            /\ key = DetailKey(i)
            /\ Matches(ListPattern, key)
            /\ (detail.pc = "getting" /\ detail.id = i) => detail.pending.arg = key
            /\ (/\ home.pc = "listing" /\ home.pending.st = "inflight"
                /\ home'.pc = "shown") =>
                 \E n \in DOMAIN home'.resumes :
                   home'.resumes[n] = Parse(kvStore[key])
            /\ (/\ detail.pc = "getting" /\ detail.id = i
                /\ detail.pending.st = "inflight"
                /\ detail'.pc \in {"readingPdf", "returned"}) =>
                 /\ detail'.pc = "readingPdf"
                 /\ detail'.data = Parse(kvStore[key])
    ]_vars

\* The detail view, reached from the card of the listing, holds a record
\* whose feedback is still "".
C6_Witness ==
  /\ detail.pc \in {"readingPdf", "readingImg", "loaded"}
  /\ detail.data.feedback = EmptyString
  /\ CheckpointWritten(detail.id)
  /\ run[detail.id].pc = "feedback"

\* C7, as stated: for a record whose feedback is "" neither its card in the
\* listing nor the detail view reads a property of the feedback or displays
\* a score.
C7_NoScoreForCheckpoint ==
  /\ \A n \in DOMAIN home.resumes :
       home.resumes[n].feedback = EmptyString =>
         /\ ResumeCard(home.resumes[n]).reads = {}
         /\ ResumeCard(home.resumes[n]).scores = {}
  /\ (detail.pc = "loaded" /\ detail.data.feedback = EmptyString) =>
       /\ Resume_render.reads = {}
       /\ Resume_render.scores = {}

\* C10: a helper of the facade called while window.puter is absent leaves
\* its caller with undefined, sets the error of the store to "Puter.js not
\* available" and makes no call to the backend: neither the files nor the
\* keys change, at the call or when the caller resumes.
C10_UnavailableFacade ==
  [][/\ (app.pending = NoCall /\ app'.pending # NoCall /\ getPuter = Null) =>
          /\ app'.pending.st = "undefined"
          /\ error' = NotAvailableMsg
          /\ UNCHANGED backendVars
     /\ (app.pending # NoCall /\ app.pending.st = "undefined"
           /\ app'.pending = NoCall) =>
          /\ app'.result = Undefined
          /\ UNCHANGED backendVars
    ]_vars

\* kv.flush was called without Puter.js and its caller got undefined.
C10_Witness ==
  /\ ~puter
  /\ app.last = "kv.flush"
  /\ app.result = Undefined
  /\ error = NotAvailableMsg

Anonymous == ~isAuthenticated /\ user = Null

\* C11, as stated: whenever a backend call made by an operation of the
\* facade rejects, be it a helper of fs, ai or kv or an auth operation,
\* the error of the store is set and the auth state is cleared.
C11_RejectionSetsError ==
  [][/\ (app.pending.st = "inflight" /\ app'.pending = NoCall
           /\ app'.result = Threw) =>
          (error' # Null /\ user' = Null /\ ~isAuthenticated')
     /\ \A t \in TaskIds :
          (/\ tasks[t].pc \notin {"idle", "done"} /\ tasks'[t].pc = "done"
           /\ tasks'[t].outcome = "error") =>
            (error' # Null /\ user' = Null /\ ~isAuthenticated')
    ]_vars

\* C12: once the timeout of init() has run without Puter.js being there, the
\* error was set by it exactly once, to the failed-to-load message at that
\* moment, and from then on puterReady stays false and neither the interval
\* nor the timeout callback runs again.
C12_TimeoutOnce ==
  [][/\ (~boot.gaveUp /\ boot'.gaveUp) =>
          /\ error' = TimeoutMsg
          /\ boot'.timeouts = 1
          /\ ~puterReady'
          /\ ~boot'.interval /\ ~boot'.timer
     /\ boot.gaveUp => (boot' = boot /\ ~puterReady /\ ~puterReady')
    ]_vars

\* The timeout has given up and Puter.js arrived afterwards.
C12_Witness ==
  /\ boot.gaveUp
  /\ boot.timeouts = 1
  /\ puter /\ ~puterReady
  /\ error = TimeoutMsg

\* C13: puterReady changes only from false to true, only in a step of init()
\* or of its interval callback that finds Puter.js there, and that step
\* starts checkAuthStatus(); once true it stays true.
C13_ReadyOnce ==
  [][/\ puterReady => puterReady'
     /\ (~puterReady /\ puterReady') =>
          /\ getPuter # Null
          /\ tasks[0].pc = "idle"
          /\ tasks'[0].op = "checkAuthStatus"
          /\ tasks'[0].pc = "isSignedIn"
          /\ isLoading' /\ error' = Null
    ]_vars

\* Ready by polling, and the auth check that this started has finished.
C13_Witness ==
  /\ puterReady
  /\ boot.clock > 0
  /\ tasks[0].pc = "done"
  /\ isAuthenticated

SignInEnds(t) ==
  tasks[t].pc # "done" /\ tasks'[t].pc = "done" /\ tasks'[t].op = "signIn"

\* C14, as stated: when a signIn() ends the store is authenticated with a
\* user, or anonymous with the error set.
C14_SignInNeverSilent ==
  [][\A t \in TaskIds :
       SignInEnds(t) =>
         \/ isAuthenticated' /\ user' # Null
         \/ ~isAuthenticated' /\ user' = Null /\ error' # Null
    ]_vars

\* C14, amended: when a signIn() ends the store is authenticated with a
\* user, or anonymous with the error set, or, when puter.auth.isSignedIn()
\* answered false after the sign-in resolved, anonymous and not loading
\* with the error as it was.
C14_SignInOutcome ==
  [][\A t \in TaskIds :
       SignInEnds(t) =>
         \/ isAuthenticated' /\ user' # Null
         \/ ~isAuthenticated' /\ user' = Null /\ error' # Null
         \/ /\ tasks[t].pc = "isSignedIn"
            /\ ~isAuthenticated' /\ user' = Null /\ ~isLoading'
            /\ error' = error
    ]_vars

\* A signIn() has ended with the store anonymous and no error.
C14_Witness ==
  \E t \in TaskIds :
    /\ tasks[t].op = "signIn" /\ tasks[t].pc = "done"
    /\ tasks[t].at = "isSignedIn" /\ tasks[t].outcome = "ok"
    /\ Anonymous /\ error = Null

RefreshEnds(t, outcome) ==
  tasks[t].pc # "done" /\ tasks'[t].pc = "done"
    /\ tasks'[t].op = "refreshUser"
    /\ IF outcome = "ok" THEN tasks'[t].outcome = "ok"
                        ELSE tasks'[t].outcome # "ok"

\* C15, as stated: a refreshUser() that succeeds leaves isAuthenticated as it
\* was when it was called; one that fails leaves the store anonymous with
\* an error.
C15_RefreshKeepsFlag ==
  [][\A t \in TaskIds :
       /\ RefreshEnds(t, "ok") => isAuthenticated' = tasks'[t].was
       /\ RefreshEnds(t, "error") =>
            (~isAuthenticated' /\ user' = Null /\ error' # Null)
    ]_vars

\* C15, amended: a refreshUser() that succeeds leaves the store authenticated
\* with the user it fetched, whatever isAuthenticated was when it was
\* called; one that fails leaves the store anonymous with an error.
C15_RefreshAuthenticates ==
  [][\A t \in TaskIds :
       /\ RefreshEnds(t, "ok") =>
            (isAuthenticated' /\ user' \in Users /\ ~isLoading' /\ error' = error)
       /\ RefreshEnds(t, "error") =>
            (~isAuthenticated' /\ user' = Null /\ error' # Null /\ ~isLoading')
    ]_vars

\* A refreshUser() called on an anonymous store has succeeded and the store
\* is authenticated.
C15_Witness ==
  \E t \in TaskIds :
    /\ tasks[t].op = "refreshUser" /\ tasks[t].pc = "done"
    /\ tasks[t].outcome = "ok" /\ ~tasks[t].was
    /\ isAuthenticated /\ user \in Users

\* C16: the rendering engine is imported at most once, however many calls of
\* convertPdfToImage are made before the first import settles and after it:
\* a call that waits for the engine waits for the one import in flight or
\* settled, and a call made once the module is cached imports nothing.
C16_LoadedOnce ==
  /\ pdf.imports <= 1
  /\ \A c \in Converts :
       conv[c].pc = "load" =>
         IF conv[c].on = "lib" THEN pdf.pdfjsLib
                               ELSE pdf.loadPromise # "null" /\ pdf.imports = 1

\* Two calls were made before the import settled and a third after it.
C16_Witness ==
  /\ conv[1].pc = "done" /\ conv[2].pc = "done"
  /\ conv[3].pc = "load" /\ conv[3].on = "lib"
  /\ pdf.imports = 1
  /\ \E c \in {1, 2} : conv[c].at = "none"

\* C17: a call of convertPdfToImage that has ended did not throw: when a
\* stage failed it gave file null, imageUrl "" and a non-empty error, and
\* when none failed a file, a non-empty imageUrl and no error.
C17_NeverThrows ==
  \A c \in Converts :
    conv[c].pc = "done" =>
      LET r == conv[c].result IN
        /\ r # Threw
        /\ IF conv[c].at # "none"
             THEN /\ r.file = Null /\ r.imageUrl = ""
                  /\ "error" \in DOMAIN r /\ r.error # ""
             ELSE /\ r.file # Null /\ r.imageUrl # ""
                  /\ "error" \notin DOMAIN r

\* One call failed in the rendering, one in the blob encoding and one
\* succeeded.
C17_Witness ==
  /\ \A c \in Converts : conv[c].pc = "done"
  /\ \E c \in Converts : conv[c].at = "render"
  /\ \E c \in Converts : conv[c].at = "toBlob"
  /\ \E c \in Converts : conv[c].at = "none"

\* A guard of a protected view navigates to the auth view.
GuardRedirects ==
  route.path # "/auth" /\ route'.path = "/auth" /\ route'.next # ""

\* C18, as stated: a protected view (home, record detail, wipe) navigates to
\* the auth view only with its own route as the next target, only when the
\* user is not authenticated and only when no auth check is in progress.
C18_GuardsWaitForCheck ==
  [][GuardRedirects =>
       /\ route.path \in {"/", "/resume", "/wipe"}
       /\ route'.next = route.path /\ route'.id = route.id
       /\ ~isAuthenticated
       /\ ~isLoading
    ]_vars

\* C18, amended: a protected view navigates to the auth view only with its
\* own route as the next target and only when the user is not
\* authenticated; the record detail and the wipe view do so only when no
\* auth check is in progress, the home view also while one is.
C18_GuardsRedirect ==
  [][GuardRedirects =>
       /\ route.path \in {"/", "/resume", "/wipe"}
       /\ route'.next = route.path /\ route'.id = route.id
       /\ ~isAuthenticated
       /\ route.path \in {"/resume", "/wipe"} => ~isLoading
    ]_vars

\* The auth check of init() has finished with the user not signed in and the
\* wipe view has sent the user to the auth view.
C18_Witness ==
  /\ tasks[0].pc = "done" /\ tasks[0].outcome = "ok"
  /\ ~isAuthenticated /\ ~isLoading
  /\ route = [path |-> "/auth", id |-> 0, next |-> "/wipe"]

\* C19, as stated: when the Auth view sees the user authenticated it
\* navigates to the next target of the query, and to "/" when the query has
\* none.
C19_AuthRedirectsToNextOrHome ==
  [][Len(redirects') > Len(redirects) =>
       route'.path = (IF route.next = "" THEN "/" ELSE route.next)
    ]_vars

\* The runs of handleDelete whose fs.delete call is with the backend.
InFlightDeletes ==
  {j \in WipeJobs : /\ wipe.jobs[j].pc = "deleting"
                    /\ wipe.jobs[j].pending.st = "inflight"}

\* The run has awaited the deletes of its first n files, in order, and
\* after them the flush or not.
SettledIs(job, n, flushed) ==
  /\ Len(job.settled) = n + (IF flushed THEN 1 ELSE 0)
  /\ \A m \in 1..n : /\ job.settled[m].op = "fs.delete"
                     /\ job.settled[m].arg = job.files[m].path
  /\ flushed => job.settled[n + 1].op = "kv.flush"

\* Within one run of handleDelete each call is issued after the one before
\* it has resolved.
Sequential(job) ==
  /\ job.pc = "deleting" =>
       /\ job.k \in 1..Len(job.files)
       /\ job.pending.op = "fs.delete"
       /\ job.pending.arg = job.files[job.k].path
       /\ SettledIs(job, job.k - 1, FALSE)
  /\ job.pc = "flushing" =>
       /\ job.pending.op = "kv.flush"
       /\ SettledIs(job, Len(job.files), FALSE)
  /\ job.pc = "reloading" =>
       /\ job.pending.op = "fs.readdir"
       /\ SettledIs(job, Len(job.files), TRUE)

\* C20, as stated: at most one fs.delete call is in flight at any time, each
\* delete is issued after the one before it has resolved, kv.flush after
\* the delete of every listed file, and the reload after the flush.
C20_OneDeleteInFlight ==
  /\ Cardinality(InFlightDeletes) <= 1
  /\ \A j \in WipeJobs : Sequential(wipe.jobs[j])

\* C20, amended: within one run of handleDelete at most one fs.delete call
\* is in flight: each delete is issued after the one before it has
\* resolved, kv.flush after the delete of every listed file, and the reload
\* after the flush; the runs of two clicks are not ordered against each
\* other.
C20_SequentialPerRun ==
  \A j \in WipeJobs : Sequential(wipe.jobs[j])

\* The run of the first click reloads after two deletes and the flush while
\* the run of a second click is at the delete of its second file.
C20_Witness ==
  /\ wipe.jobs[1].pc = "reloading" /\ Len(wipe.jobs[1].settled) = 3
  /\ wipe.jobs[2].pc = "deleting" /\ wipe.jobs[2].k = 2
  /\ wipe.jobs[2].pending.st = "inflight"

\* An asynchronous operation of the facade has been called and has not
\* returned to its caller yet.
InProgress ==
  \/ \E t \in TaskIds : tasks[t].pc \notin {"idle", "done"}
  \/ app.pending.st = "inflight"

\* C21, as stated: isLoading is true in every state in which an auth
\* operation or a helper of fs, ai or kv is in progress.
C21_LoadingWhileInProgress == InProgress => isLoading

\* C26: isAuthenticated is true exactly when user is not null, whatever the
\* order in which init(), the auth operations and the helpers run and fail.
C26_AuthenticatedIffUser == isAuthenticated <=> user # Null

\* A sign-in has succeeded and a later operation has failed and cleared the
\* session again.
C26_Witness ==
  /\ error # Null /\ user = Null /\ ~isAuthenticated
  /\ getUser # Live /\ getUser.v \in Users
  /\ tasks[0].pc = "done"

\* What auth.getUser() returns.
GetUserResult == IF getUser = Live THEN user ELSE getUser.v

\* C27, as stated: auth.getUser() returns the value of auth.user.
C27_GetUserIsUser == GetUserResult = user

\* C28, as stated: when the error is not null, isAuthenticated is false.
C28_ErrorImpliesAnonymous == error # Null => ~isAuthenticated

\* C29, as stated: once init() has been called the store reaches a state in
\* which isLoading is false and puterReady is true or the error is set,
\* whenever Puter.js appears or if it never does.
C29_EventuallySettled ==
  boot.called ~> (~isLoading /\ (puterReady \/ error # Null))

\* C30: the engine import is started at most once also when it fails: a call
\* of convertPdfToImage made after the import was rejected starts no import,
\* waits for nothing else than the rejected load, and ends with file null
\* and an error.
C30_FailedLoadIsFinal ==
  /\ pdf.imports <= 1
  /\ pdf.loadPromise = "rejected" => ~pdf.pdfjsLib
  /\ \A c \in Converts :
       (conv[c].pc # "idle" /\ conv[c].found = "rejected") =>
         /\ pdf.loadPromise = "rejected" /\ pdf.imports = 1
         /\ conv[c].pc \in {"load", "done"}
         /\ conv[c].pc = "load" => conv[c].on = "promise"
         /\ conv[c].pc = "done" =>
              /\ conv[c].at = "load"
              /\ conv[c].result # Threw
              /\ conv[c].result.file = Null
              /\ conv[c].result.error # ""

\* The call that started the import and a call made after the import was
\* rejected have both ended.
C30_Witness ==
  /\ conv[1].pc = "done" /\ conv[1].found = "null" /\ conv[1].at = "load"
  /\ conv[2].pc = "done" /\ conv[2].found = "rejected"
  /\ pdf.imports = 1

\* C22: loadResumes of Home asks kv.list for the keys with the record prefix
\* and for their values, and when the store answers and every record entry
\* holds valid JSON, Home holds one parsed record for each entry of the
\* answer, in its order, and its loading flag is cleared; when the call is
\* rejected Home keeps what it had.
C22_ListsEveryRecord ==
  [][(home.pc = "listing" /\ home.pending.st = "inflight"
        /\ home'.pc \notin {"listing", "off"}) =>
       LET items == KvItems(ListPattern) IN
         /\ home.pending.op = "kv.list"
         /\ home.pending.arg = [prefix |-> "resume:", glob |-> TRUE]
         /\ home.pending.values
         /\ (\A n \in 1..Len(items) : ~ParseThrows(items[n].value)) =>
              \/ /\ home'.pc = "shown"
                 /\ Len(home'.resumes) = Len(items)
                 /\ \A n \in 1..Len(items) :
                      home'.resumes[n] = Parse(items[n].value)
                 /\ Len(items) =
                      Cardinality({k \in DOMAIN kvStore : k.prefix = "resume:"})
                 /\ ~home'.loadingResumes
              \/ home'.pc = "rejected" /\ home'.resumes = home.resumes
    ]_vars

\* Home shows the two stored records in the order of the answer.
C22_Witness ==
  /\ home.pc = "shown"
  /\ ~home.loadingResumes
  /\ Len(home.resumes) = 2
  /\ home.resumes[1].id = 1 /\ home.resumes[2].id = 2

\* The keys a run has passed to kv.set so far.
KeysWritten(i) == {kvSets[i][n].key : n \in 1..Len(kvSets[i])}

\* The record a run builds from its own uploads, form and AI answer.
OwnRecord(i) ==
  [id |-> run[i].uuid,
   resumePath |-> run[i].uploadedFile.path,
   imagePath |-> run[i].uploadedImage.path,
   companyName |-> run[i].form.companyName,
   jobTitle |-> run[i].form.jobTitle,
   jobDescription |-> run[i].form.jobDescription,
   feedback |-> Parse(run[i].feedbackText)]

\* C23: two runs of handleAnalyze that overlap write under different record
\* identifiers, no kv.set of one run names the key of the other, and the
\* record of a run that reached navigate holds that run's own paths, form
\* values and feedback, in its last write and in the store.
C23_RunsKeepApart ==
  \A i \in Runs :
    /\ \A j \in Runs \ {i} :
         (kvSets[i] # << >> /\ kvSets[j] # << >>) =>
           /\ run[i].uuid # run[j].uuid
           /\ KeysWritten(i) \cap KeysWritten(j) = {}
    /\ run[i].pc = "done" =>
         /\ Len(kvSets[i]) = 2
         /\ Parse(kvSets[i][2].value) = OwnRecord(i)
         /\ OwnRecord(i).resumePath = DocPath(i)
         /\ OwnRecord(i).imagePath = ImgPath(i)
         /\ results[i][7] = "ok" =>
              /\ ResumeKey(run[i].uuid) \in DOMAIN kvStore
              /\ Parse(kvStore[ResumeKey(run[i].uuid)]) = OwnRecord(i)

\* The second run finished and stored its record while the first, started
\* before it with another form, was still waiting for its final kv.set.
C23_Witness ==
  /\ run[2].pc = "done" /\ results[2][7] = "ok"
  /\ run[1].pc = "kvSet2" /\ run[1].pending.st = "inflight"
  /\ run[1].form # run[2].form
  /\ Parse(kvStore[ResumeKey(run[2].uuid)]) = OwnRecord(2)

\* The items of activeItems, and whether it lists an item twice.
ActiveSet(a) == {a.activeItems[n] : n \in 1..Len(a.activeItems)}
NoDuplicate(a) == Cardinality(ActiveSet(a)) = Len(a.activeItems)

\* C24: in single mode at most one item is active in every state, toggling
\* the active item leaves none active and toggling an inactive item makes
\* it the only active one; in multi mode activeItems never lists an item
\* twice and toggling an item twice in a row gives back the set of items
\* that were active before.
C24_ToggleItem ==
  [][/\ ~accordion.allowMultiple => Len(accordion.activeItems) <= 1
     /\ NoDuplicate(accordion)
     /\ accordion' # accordion =>
          LET id == accordion'.last IN
            /\ NoDuplicate(accordion')
            /\ ~accordion.allowMultiple =>
                 /\ Len(accordion'.activeItems) <= 1
                 /\ id \in ActiveSet(accordion) => accordion'.activeItems = << >>
                 /\ id \notin ActiveSet(accordion) =>
                      accordion'.activeItems = <<id>>
            /\ (accordion.allowMultiple /\ accordion.last = id) =>
                 \E earlier \in {accordion.before} :
                   ActiveSet(accordion') =
                     {earlier[n] : n \in 1..Len(earlier)}
    ]_vars

\* In multi mode three items are open and the one toggled last was toggled
\* twice in a row, which moved it to the end of activeItems.
C24_Witness ==
  /\ accordion.allowMultiple
  /\ Len(accordion.activeItems) = 3
  /\ accordion.repeat
  /\ accordion.last = accordion.activeItems[3]
  /\ Len(accordion.before) = 2

\* C25: while the upload form is shown, once FileUploader has reported
\* through onFileSelect, the file it displays is the value it reported last
\* and the form holds that value; after the remove button that is no file.
C25_DisplayedIsReported ==
  \A i \in Runs :
    (Mounted(i) /\ ~view[i].isProcessing /\ uploader[i].reported # "none") =>
      /\ view[i].file = uploader[i].reported
      /\ Displayed(i) = uploader[i].reported

====
